---- MODULE Spec2Model ----
(***************************************************************************)
(* Verification model of the sochdb-go memory system.                      *)
(*                                                                         *)
(* Part 1: the Consolidator (event-sourced consolidation of raw            *)
(* assertions into canonical facts) over the embedded key-value store.     *)
(*                                                                         *)
(* Conventions of the model                                                *)
(*  - Ids stand for fixed-width identifier strings; the natural number     *)
(*    order of the model is the bytewise order of the keys in the store.   *)
(*  - A fact is written by the caller as a list of <<key, value>> pairs    *)
(*    with distinct keys.  A Go map keeps no order and json.Marshal writes *)
(*    the keys sorted: Marshal sorts the pairs by key.                     *)
(*  - Confidences are counted in hundredths (95 is 0.95).  A merged        *)
(*    confidence is the exact rational <<p, q>> (p/q hundredths, in lowest *)
(*    terms) of the value the code computes in float64; rounding of the    *)
(*    floating point operations is not modelled.                           *)
(*  - SHA-256 prefixes are modelled as injective numberings (no            *)
(*    collisions).                                                         *)
(***************************************************************************)
EXTENDS Integers, Sequences, FiniteSets, TLC

\* ------------------------------------------------------------------ bounds
MaxClock == 3          \* the wall clock runs from 1 to MaxClock
MaxAdds == 2           \* Add / AddWithContradiction calls per behaviour of Spec
SeqMaxAdds == 3        \* the same, per behaviour of SpecSeq
OverlapAdds == 2       \* the same, per behaviour of SpecOverlap
GenAdds == 3           \* the same, per behaviour of SpecGen
MaxRuns == 2           \* Consolidate calls per behaviour of Spec and SpecSeq
MergeRuns == 1         \* the same, per behaviour of SpecMerge
ConflictAge == 1       \* the configured max_conflict_age, in clock ticks
MaxIndexCalls == 2     \* calls of IndexDocuments per behaviour of SpecIndex
FusionCalls == 1       \* the same, per behaviour of SpecFusion
MaxTextLen == 4        \* the longest text of SpecTokenize, in characters
TieAdds == 3           \* Add / AddWithContradiction calls per behaviour of SpecTies
TieRuns == 2           \* Consolidate calls per behaviour of SpecTies
RaceCalls == 2         \* the same, per behaviour of SpecRace
ScanCalls == 2         \* the same, per behaviour of SpecScan
ConfigCalls == 1       \* calls of IndexDocuments per retriever, and of Add, in SpecConfig
RepeatCalls == 2       \* calls of IndexDocuments per behaviour of SpecRepeat
MaxTxnCalls == 4       \* calls on the Transaction per behaviour of SpecTransaction
MaxQueueCalls == 4     \* calls on the PriorityQueue per behaviour of SpecQueue
MaxCacheCalls == 3     \* calls on the SemanticCache per behaviour of SpecCache
MaxSections == 3       \* sections of the ContextQueryBuilder of SpecContext
TwiceAdds == 3         \* Add / AddWithContradiction calls per behaviour of SpecTwice

\* ------------------------------------------------------------------ data
Runners == {"r1"}

ExplicitIds == {1, 2, 3}

Sources == <<"linkedin", "website", "github">>

\* bytewise order of the keys that occur in facts
KeyRank == [age |-> 1, claim |-> 2, subject |-> 3]

FAge32 == << <<"age", "32">> >>
FAge33 == << <<"age", "33">> >>
FAlice == << <<"subject", "Alice">>, <<"claim", "works at TechCorp">> >>
FAliceRev == << <<"claim", "works at TechCorp">>, <<"subject", "Alice">> >>

Min(S) == CHOOSE x \in S : \A y \in S : x <= y

RECURSIVE Gcd(_, _)
Gcd(a, b) == IF b = 0 THEN a ELSE Gcd(b, a % b)

\* the rational p/q in lowest terms
Rat(p, q) == LET g == Gcd(p, q) IN IF g = 0 THEN <<0, 1>> ELSE <<p \div g, q \div g>>

RemoveAt(s, i) == [j \in 1..(Len(s) - 1) |-> IF j < i THEN s[j] ELSE s[j + 1]]

\* json.Marshal of a map[string]interface{}: the pairs in sorted key order
RECURSIVE Marshal(_)
Marshal(fact) ==
  IF fact = <<>> THEN <<>>
  ELSE LET i == CHOOSE i \in DOMAIN fact :
                  \A j \in DOMAIN fact : KeyRank[fact[i][1]] <= KeyRank[fact[j][1]]
       IN <<fact[i]>> \o Marshal(RemoveAt(fact, i))

\* the encodings the hash is applied to in the model, numbered
FactTable == <<Marshal(FAge32), Marshal(FAge33), Marshal(FAlice)>>
FactIndex(bytes) == CHOOSE i \in DOMAIN FactTable : FactTable[i] = bytes
SourceIndex(src) == CHOOSE i \in DOMAIN Sources : Sources[i] = src

\* hex(sha256(bytes))[:16], injective on the encodings of the model
Sha16(bytes) == 50 + FactIndex(bytes)
Sha16Cat(bytes, src) == 10 + 4 * FactIndex(bytes) + SourceIndex(src)

\* a plausible slip: the whole assertion hashed, its confidence included
generateAssertionIDOfRecord(a) == 100 * a.confidence + Sha16Cat(Marshal(a.fact), a.source)

generateAssertionID(a) == Sha16Cat(Marshal(a.fact), a.source)

\* a plausible slip: the hash taken as for an assertion id, over fact and source
generateCanonicalIDWithSource(a) == Sha16Cat(Marshal(a.fact), a.source)

generateCanonicalID(a) == Sha16(Marshal(a.fact))

VARIABLES
  assertions,      \* consolidation:<ns>:assertion:<id>  -> RawAssertion JSON
  contradictions,  \* consolidation:<ns>:contradiction:<from>:<to> -> edge JSON
  canonical,       \* consolidation:<ns>:canonical:<id>  -> CanonicalFact JSON
  now,             \* time.Now().Unix()
  config,          \* Consolidator.config
  awc,             \* the AddWithContradiction call in progress or last returned
  run,             \* the Consolidate calls, one per runner: the position and
                   \* the local variables (log: per group processed, the
                   \* validAssertions, the time of the filter and the
                   \* canonical fact built)
  nAdds, nRuns,    \* calls made so far
  explained,       \* the last call of Consolidator.Explain and its result
  docs,            \* retrieval:<ns>:doc:<id> -> document JSON
  bm25,            \* HybridRetriever.bm25, the BM25Scorer
  retrieved,       \* the last call of HybridRetriever.Retrieve and its result
  rconfig,         \* HybridRetriever.config
  idx,             \* the HybridRetriever.IndexDocuments call in progress: its
                   \* position and local variables (calls: calls made so far)
  txn,             \* a Transaction, the store of its client and its last call
  pq,              \* a PriorityQueue, the tasks and counters it has stored and
                   \* its last call
  cache,           \* a SemanticCache, the entries under its prefix and its
                   \* last call
  ctx              \* a ContextQueryBuilder and the result of its last Execute

consolidatorVars ==
  <<assertions, contradictions, canonical, now, config, awc, run, nAdds, nRuns>>

retrieverVars == <<docs, bm25, retrieved, rconfig, idx>>

\* the other types of the package
packageVars == <<txn, pq, cache, ctx>>

\* the state the Consolidator's writing operations leave alone
otherVars == <<explained, retrieverVars, packageVars>>

vars == <<consolidatorVars, otherVars>>

IdleAwc == [pc |-> "idle", id |-> 0, list |-> <<>>, i |-> 0, wrote |-> {}, err |-> "none"]
IdleRun == [pc |-> "idle", assertions |-> <<>>, contradictions |-> <<>>, left |-> {},
            log |-> <<>>, updated |-> 0]

\* no Explain call made yet
NoExplain == [id |-> 0, present |-> FALSE, get |-> "none", result |-> <<>>, err |-> "none"]

\* NewBM25Scorer(1.5, 0.75): k1 = 3/2 and b = 3/4, the maps empty
NewBM25Scorer ==
  [documentCount |-> 0, avgDocLength |-> <<0, 1>>, termDocFreq |-> <<>>,
   documentLengths |-> <<>>, documents |-> <<>>]

\* no Retrieve call made yet
NoRetrieve ==
  [query |-> <<>>, allowed |-> [kind |-> "none"], partial |-> FALSE,
   candidates |-> {}, lexicalRanks |-> <<>>, semanticRanks |-> <<>>, combined |-> <<>>,
   results |-> <<>>, err |-> "none"]

\* no IndexDocuments call in progress
\* (before: the scorer as the rebuild found it, kept to state what a reader
\* that runs during the rebuild may see)
IdleIdx == [pc |-> "idle", documents |-> <<>>, left |-> {}, totalLength |-> 0, err |-> "none",
            calls |-> 0, before |-> <<>>]

\* NewHybridRetriever with a nil config: the defaults (the weights in tenths)
DefaultRetrievalConfig ==
  [Limit |-> 10, LexicalWeight |-> 3, SemanticWeight |-> 7, RRFConstant |-> 60]

\* NewConsolidator with a nil config: the defaults (MaxConflictAge in clock
\* ticks)
DefaultConsolidationConfig == [UseTemporalUpdates |-> TRUE, MaxConflictAge |-> ConflictAge]

\* a caller's config argument: nil, or a pointer to a struct literal that
\* names the fields in given with their values; a Go struct literal leaves the
\* fields it does not name at the zero value
NilConfig == [nil |-> TRUE, given |-> {}, values |-> <<>>]
ConfigLiteral(given, values) == [nil |-> FALSE, given |-> given, values |-> values]

RetrievalConfigOf(arg) ==
  [Limit |-> IF "Limit" \in arg.given THEN arg.values.Limit ELSE 0,
   LexicalWeight |-> IF "LexicalWeight" \in arg.given THEN arg.values.LexicalWeight ELSE 0,
   SemanticWeight |-> IF "SemanticWeight" \in arg.given THEN arg.values.SemanticWeight ELSE 0,
   RRFConstant |-> IF "RRFConstant" \in arg.given THEN arg.values.RRFConstant ELSE 0]

ConsolidationConfigOf(arg) ==
  [UseTemporalUpdates |-> IF "UseTemporalUpdates" \in arg.given
                            THEN arg.values.UseTemporalUpdates ELSE FALSE,
   MaxConflictAge |-> IF "MaxConflictAge" \in arg.given THEN arg.values.MaxConflictAge ELSE 0]

\* the config NewHybridRetriever keeps
NewHybridRetrieverConfig(arg) ==
  IF arg.nil THEN DefaultRetrievalConfig ELSE RetrievalConfigOf(arg)

\* the config NewConsolidator keeps
NewConsolidatorConfig(arg) ==
  IF arg.nil THEN DefaultConsolidationConfig ELSE ConsolidationConfigOf(arg)

\* a store with no document, no call made yet
InitRetriever ==
  /\ docs = <<>>
  /\ bm25 = NewBM25Scorer
  /\ retrieved = NoRetrieve
  /\ idx = IdleIdx

\* a Transaction as Database.BeginTransaction gives it: active, nothing
\* called yet
NoCall == [op |-> "none", err |-> "nil", reached |-> FALSE]
NewTransaction == [committed |-> FALSE, aborted |-> FALSE, store |-> <<>>, calls |-> 0,
                   last |-> NoCall]

\* NewPriorityQueue on an empty database: no task, every counter absent (0)
NoQueueCall == [op |-> "none", result |-> <<>>, err |-> "nil"]
NewPriorityQueue ==
  [sequenceCounter |-> 0, tasks |-> <<>>, stats |-> <<>>, calls |-> 0, last |-> NoQueueCall]

\* NewSemanticCache on an empty database
NoCacheCall == [op |-> "none", query |-> <<>>, threshold |-> <<0, 1>>, hit |-> <<>>]
NewSemanticCache ==
  [entries |-> <<>>, hits |-> 0, misses |-> 0, calls |-> 0, last |-> NoCacheCall]

\* NewContextQueryBuilder: budget 4096, tail_drop, no section; Execute not
\* called yet
NewContextQueryBuilder ==
  [tokenBudget |-> 4096, truncation |-> "tail_drop", sections |-> <<>>, result |-> <<>>]

InitPackage ==
  /\ txn = NewTransaction
  /\ pq = NewPriorityQueue
  /\ cache = NewSemanticCache
  /\ ctx = NewContextQueryBuilder

InitOther ==
  /\ InitPackage
  /\ explained = NoExplain
  /\ InitRetriever
  /\ rconfig = DefaultRetrievalConfig

\* a store with no assertion, no call made yet
InitAssertions ==
  /\ assertions = <<>>
  /\ contradictions = <<>>
  /\ canonical = <<>>
  /\ now = 1
  /\ awc = IdleAwc
  /\ run = [r \in Runners |-> IdleRun]
  /\ nAdds = 0
  /\ nRuns = 0

InitStore ==
  /\ InitAssertions
  /\ InitOther

\* NewConsolidator with a nil config: the defaults
Init ==
  /\ InitStore
  /\ config = [UseTemporalUpdates |-> TRUE, MaxConflictAge |-> ConflictAge]

\* NewConsolidator with a caller's config
InitSeq ==
  /\ InitStore
  /\ config \in [UseTemporalUpdates : BOOLEAN, MaxConflictAge : {ConflictAge}]

\* db.Put(key, value) on a store modelled as a function from keys to values
Put(store, key, value) ==
  [k \in DOMAIN store \cup {key} |-> IF k = key THEN value ELSE store[k]]

\* the record Add stores for the caller's assertion a
storedAssertion(a) ==
  [id |-> IF a.id = 0 THEN generateAssertionID(a) ELSE a.id,
   fact |-> Marshal(a.fact),
   literal |-> a.fact,     \* not stored: the fact as the caller wrote it
   source |-> a.source,
   confidence |-> a.confidence,
   timestamp |-> IF a.timestamp = 0 THEN now ELSE a.timestamp]

\* Consolidator.Add; ok is the outcome of marshalling and db.Put
Add(a, ok) ==
  /\ nAdds' = nAdds + 1
  /\ assertions' = IF ok THEN Put(assertions, storedAssertion(a).id, storedAssertion(a))
                         ELSE assertions
  /\ UNCHANGED <<contradictions, canonical, now, config, awc, run, nRuns, otherVars>>

Tick ==
  /\ now < MaxClock
  /\ now' = now + 1
  /\ UNCHANGED <<assertions, contradictions, canonical, config, awc, run, nAdds, nRuns, otherVars>>

\* ---------------------------------------------------- AddWithContradiction
\* the call and its first statement, c.Add(newAssertion); ok is Add's outcome
AddWithContradiction(a, contradicts, ok) ==
  /\ awc.pc = "idle"
  /\ nAdds' = nAdds + 1
  /\ IF ok
       THEN /\ assertions' = Put(assertions, storedAssertion(a).id, storedAssertion(a))
            /\ awc' = [pc |-> IF contradicts = <<>> THEN "done" ELSE "edges",
                       id |-> storedAssertion(a).id, list |-> contradicts,
                       i |-> 1, wrote |-> {}, err |-> "none"]
       ELSE /\ assertions' = assertions
            /\ awc' = [pc |-> "done", id |-> 0, list |-> contradicts,
                       i |-> 0, wrote |-> {}, err |-> "assertion"]
  /\ UNCHANGED <<contradictions, canonical, now, config, run, nRuns, otherVars>>

\* a plausible slip: a failed edge write skipped, the loop going on
AddWithContradictionEdgeContinue(ok) ==
  /\ awc.pc = "edges"
  /\ LET contradictedID == awc.list[awc.i]
         last == awc.i = Len(awc.list)
     IN /\ contradictions' =
             IF ok THEN Put(contradictions, <<contradictedID, awc.id>>,
                            [from |-> contradictedID, to |-> awc.id, timestamp |-> now])
                   ELSE contradictions
        /\ awc' = [awc EXCEPT !.wrote = IF ok THEN @ \cup {awc.i} ELSE @,
                              !.i = IF last THEN @ ELSE @ + 1,
                              !.pc = IF last THEN "done" ELSE "edges"]
  /\ UNCHANGED <<assertions, canonical, now, config, run, nAdds, nRuns, otherVars>>

\* one iteration of the loop over contradicts; ok is the outcome of db.Put
AddWithContradictionEdge(ok) ==
  /\ awc.pc = "edges"
  /\ LET contradictedID == awc.list[awc.i]
         last == awc.i = Len(awc.list)
     IN IF ok
          THEN /\ contradictions' =
                    Put(contradictions, <<contradictedID, awc.id>>,
                        [from |-> contradictedID, to |-> awc.id, timestamp |-> now])
               /\ awc' = [awc EXCEPT !.wrote = @ \cup {awc.i},
                                     !.i = IF last THEN @ ELSE @ + 1,
                                     !.pc = IF last THEN "done" ELSE "edges"]
          ELSE /\ contradictions' = contradictions
               /\ awc' = [awc EXCEPT !.pc = "done", !.err = "edge"]
  /\ UNCHANGED <<assertions, canonical, now, config, run, nAdds, nRuns, otherVars>>

\* the caller has the result of AddWithContradiction
AddWithContradictionReturned ==
  /\ awc.pc = "done"
  /\ awc' = IdleAwc
  /\ UNCHANGED <<assertions, contradictions, canonical, now, config, run, nAdds, nRuns, otherVars>>

\* ------------------------------------------------------------- Consolidate
\* txn.ScanPrefix over a store keyed by numbers: the values in key order
RECURSIVE ScanIds(_, _)
ScanIds(store, keys) ==
  IF keys = {} THEN <<>>
  ELSE LET k == Min(keys) IN <<store[k]>> \o ScanIds(store, keys \ {k})

\* the same over the contradiction keys <from>:<to>
RECURSIVE ScanEdges(_, _)
ScanEdges(store, keys) ==
  IF keys = {} THEN <<>>
  ELSE LET k == CHOOSE k \in keys : \A m \in keys :
                  k[1] < m[1] \/ (k[1] = m[1] /\ k[2] <= m[2])
       IN <<store[k]>> \o ScanEdges(store, keys \ {k})

\* a plausible slip: the first record of the scan consumed before the loop
getAllAssertionsSkipFirst ==
  IF DOMAIN assertions = {} THEN <<>> ELSE Tail(ScanIds(assertions, DOMAIN assertions))

getAllAssertions == ScanIds(assertions, DOMAIN assertions)

getContradictions == ScanEdges(contradictions, DOMAIN contradictions)

\* a plausible slip: the comparisons turned round (ascending order)
lessAscending(x, y) ==
  IF x.confidence # y.confidence THEN x.confidence < y.confidence
  ELSE x.timestamp < y.timestamp

\* a plausible slip: the confidence left out of the comparison
lessByTimestamp(x, y) == x.timestamp > y.timestamp

\* the comparison function handed to sort.Slice
less(x, y) ==
  IF x.confidence # y.confidence THEN x.confidence > y.confidence
  ELSE x.timestamp > y.timestamp

Perms(s) ==
  {[i \in DOMAIN s |-> s[p[i]]] :
     p \in {q \in [DOMAIN s -> DOMAIN s] : \A i, j \in DOMAIN s : q[i] = q[j] => i = j}}

\* the orders sort.Slice may leave the group in (the sort is not stable)
SortedOrders(group) ==
  {t \in Perms(group) : \A i \in 1..(Len(t) - 1) : ~less(t[i + 1], t[i])}

\* a plausible slip: the age tested whatever UseTemporalUpdates says
isContradictedAlwaysAged(a, conts, cfg, t) ==
  LET hits == {i \in DOMAIN conts : conts[i].from = a.id}
  IN IF hits = {} THEN FALSE
     ELSE ~(t - conts[Min(hits)].timestamp > cfg.MaxConflictAge)

\* a plausible slip: the age compared with >= (an edge as old as
\* MaxConflictAge already expired)
isContradictedStrict(a, conts, cfg, t) ==
  LET hits == {i \in DOMAIN conts : conts[i].from = a.id}
  IN IF hits = {} THEN FALSE
     ELSE ~(cfg.UseTemporalUpdates /\ t - conts[Min(hits)].timestamp >= cfg.MaxConflictAge)

\* the inner loop of the filter: the decision taken at the first edge, in scan
\* order, whose from is the assertion's id.  An edge whose timestamp does not
\* decode to a float64 (no number under "timestamp") is a record with no
\* timestamp field: the type assertion fails and the age is not looked at.
isContradicted(a, conts, cfg, t) ==
  LET hits == {i \in DOMAIN conts : conts[i].from = a.id}
  IN IF hits = {} THEN FALSE
     ELSE LET cont == conts[Min(hits)]
          IN IF /\ cfg.UseTemporalUpdates
                /\ "timestamp" \in DOMAIN cont
                /\ t - cont.timestamp > cfg.MaxConflictAge
               THEN FALSE
               ELSE TRUE

RECURSIVE SumWeighted(_, _, _)
SumWeighted(s, i, f) ==
  IF i > Len(s) THEN 0 ELSE s[i].confidence * (f \div i) + SumWeighted(s, i + 1, f)

RECURSIVE SumWeights(_, _, _)
SumWeights(n, i, f) ==
  IF i > n THEN 0 ELSE (f \div i) + SumWeights(n, i + 1, f)

RECURSIVE Factorial(_)
Factorial(n) == IF n <= 1 THEN 1 ELSE n * Factorial(n - 1)

\* a plausible slip: the plain mean, every weight 1
mergeConfidenceMean(s) ==
  IF Len(s) = 0 THEN <<0, 1>>
  ELSE Rat(SumWeighted(s, 1, 1), Len(s))

\* weightedSum / totalWeight with the weights 1/(i+1), over the common
\* denominator n!
mergeConfidence(s) ==
  IF Len(s) = 0 THEN <<0, 1>>
  ELSE IF Len(s) = 1 THEN Rat(s[1].confidence, 1)
  ELSE Rat(SumWeighted(s, 1, Factorial(Len(s))), SumWeights(Len(s), 1, Factorial(Len(s))))

\* a plausible slip: the group key taken over the fact and the source
groupKeyBySource(a) == <<Marshal(a.fact), a.source>>

\* the key an assertion is grouped under: string(json.Marshal(Fact))
groupKey(a) == Marshal(a.fact)

\* getAllAssertions, the first statement of Consolidate
ConsolidateBegin(r) ==
  /\ run[r].pc = "idle"
  /\ nRuns' = nRuns + 1
  /\ run' = [run EXCEPT ![r] = [IdleRun EXCEPT !.pc = "readC", !.assertions = getAllAssertions]]
  /\ UNCHANGED <<assertions, contradictions, canonical, now, config, awc, nAdds, otherVars>>

\* getContradictions, then the grouping by json.Marshal(Fact)
ConsolidateReadC(r) ==
  /\ run[r].pc = "readC"
  /\ run' = [run EXCEPT ![r].pc = "groups",
                        ![r].contradictions = getContradictions,
                        ![r].left = {groupKey(run[r].assertions[i]) :
                                       i \in DOMAIN run[r].assertions}]
  /\ UNCHANGED <<assertions, contradictions, canonical, now, config, awc, nAdds, nRuns, otherVars>>

groupOf(as, key) == SelectSeq(as, LAMBDA a : groupKey(a) = key)

validOf(sorted, conts, cfg, t) == SelectSeq(sorted, LAMBDA a : ~isContradicted(a, conts, cfg, t))

\* a plausible slip: the timestamps sorted in descending order
RECURSIVE MaxTimestamp(_)
MaxTimestamp(s) ==
  IF Len(s) = 1 THEN s[1].timestamp
  ELSE LET m == MaxTimestamp(Tail(s)) IN IF s[1].timestamp > m THEN s[1].timestamp ELSE m

\* timestamps[0] after the ascending sort of the contributors' timestamps
RECURSIVE MinTimestamp(_)
MinTimestamp(s) ==
  IF Len(s) = 1 THEN s[1].timestamp
  ELSE LET m == MinTimestamp(Tail(s)) IN IF s[1].timestamp < m THEN s[1].timestamp ELSE m

\* a plausible slip: a source kept once, however many contributors have it
canonicalOfDistinctSources(valid) ==
  [id |-> generateCanonicalID(valid[1]),
   merged_fact |-> valid[1].fact,
   confidence |-> mergeConfidence(valid),
   sources |-> LET all == [i \in DOMAIN valid |-> valid[i].source]
                   first == {i \in DOMAIN all : \A j \in 1..(i - 1) : all[j] # all[i]}
                   RECURSIVE Pick(_)
                   Pick(i) == IF i > Len(all) THEN <<>>
                              ELSE (IF i \in first THEN <<all[i]>> ELSE <<>>) \o Pick(i + 1)
               IN Pick(1),
   valid_from |-> MinTimestamp(valid)]

\* a plausible slip: the time of the run taken as the start of validity
canonicalOfStamped(valid) ==
  [id |-> generateCanonicalID(valid[1]),
   merged_fact |-> valid[1].fact,
   confidence |-> mergeConfidence(valid),
   sources |-> [i \in DOMAIN valid |-> valid[i].source],
   valid_from |-> now]

canonicalOf(valid) ==
  [id |-> generateCanonicalID(valid[1]),
   merged_fact |-> valid[1].fact,
   confidence |-> mergeConfidence(valid),
   sources |-> [i \in DOMAIN valid |-> valid[i].source],
   valid_from |-> MinTimestamp(valid)]

\* a plausible slip: updated counted before the write, whatever its outcome
ConsolidateGroupCountAttempts(r, key, sorted, ok) ==
  /\ run[r].pc = "groups"
  /\ key \in run[r].left
  /\ LET valid == validOf(sorted, run[r].contradictions, config, now)
     IN IF valid # <<>>
          THEN /\ canonical' = IF ok THEN Put(canonical, canonicalOf(valid).id, canonicalOf(valid))
                                     ELSE canonical
               /\ run' = [run EXCEPT ![r].left = @ \ {key},
                                     ![r].updated = @ + 1,
                                     ![r].log = Put(@, key, [valid |-> valid, at |-> now, sorted |-> sorted,
                                                             canonical |-> canonicalOf(valid),
                                                             put |-> IF ok THEN "ok" ELSE "failed"])]
          ELSE /\ ok
               /\ canonical' = canonical
               /\ run' = [run EXCEPT ![r].left = @ \ {key},
                                     ![r].log = Put(@, key, [valid |-> valid, at |-> now, sorted |-> sorted,
                                                             canonical |-> <<>>,
                                                             put |-> "none"])]
  /\ UNCHANGED <<assertions, contradictions, now, config, awc, nAdds, nRuns, otherVars>>

\* a plausible slip: the canonical fact of a group left without contributors
\* deleted from the store
ConsolidateGroupDeleteStale(r, key, sorted, ok) ==
  /\ run[r].pc = "groups"
  /\ key \in run[r].left
  /\ LET valid == validOf(sorted, run[r].contradictions, config, now)
     IN IF valid # <<>>
          THEN /\ canonical' = IF ok THEN Put(canonical, canonicalOf(valid).id, canonicalOf(valid))
                                     ELSE canonical
               /\ run' = [run EXCEPT ![r].left = @ \ {key},
                                     ![r].updated = IF ok THEN @ + 1 ELSE @,
                                     ![r].log = Put(@, key, [valid |-> valid, at |-> now, sorted |-> sorted,
                                                             canonical |-> canonicalOf(valid),
                                                             put |-> IF ok THEN "ok" ELSE "failed"])]
          ELSE /\ ok
               /\ canonical' = [k \in DOMAIN canonical \ {generateCanonicalID(sorted[1])} |->
                                  canonical[k]]
               /\ run' = [run EXCEPT ![r].left = @ \ {key},
                                     ![r].log = Put(@, key, [valid |-> valid, at |-> now, sorted |-> sorted,
                                                             canonical |-> <<>>,
                                                             put |-> "none"])]
  /\ UNCHANGED <<assertions, contradictions, now, config, awc, nAdds, nRuns, otherVars>>

\* one iteration of the loop over the groups (a Go map: any order); sorted is
\* the order the sort left the group in, ok the outcome of db.Put
ConsolidateGroup(r, key, sorted, ok) ==
  /\ run[r].pc = "groups"
  /\ key \in run[r].left
  /\ LET valid == validOf(sorted, run[r].contradictions, config, now)
     IN IF valid # <<>>
          THEN /\ canonical' = IF ok THEN Put(canonical, canonicalOf(valid).id, canonicalOf(valid))
                                     ELSE canonical
               /\ run' = [run EXCEPT ![r].left = @ \ {key},
                                     ![r].updated = IF ok THEN @ + 1 ELSE @,
                                     ![r].log = Put(@, key, [valid |-> valid, at |-> now, sorted |-> sorted,
                                                             canonical |-> canonicalOf(valid),
                                                             put |-> IF ok THEN "ok" ELSE "failed"])]
          ELSE /\ ok
               /\ canonical' = canonical
               /\ run' = [run EXCEPT ![r].left = @ \ {key},
                                     ![r].log = Put(@, key, [valid |-> valid, at |-> now, sorted |-> sorted,
                                                             canonical |-> <<>>,
                                                             put |-> "none"])]
  /\ UNCHANGED <<assertions, contradictions, now, config, awc, nAdds, nRuns, otherVars>>

\* return updated, nil
ConsolidateReturn(r) ==
  /\ run[r].pc = "groups"
  /\ run[r].left = {}
  /\ run' = [run EXCEPT ![r].pc = "done"]
  /\ UNCHANGED <<assertions, contradictions, canonical, now, config, awc, nAdds, nRuns, otherVars>>

\* the caller has the result of Consolidate
ConsolidateReturned(r) ==
  /\ run[r].pc = "done"
  /\ run' = [run EXCEPT ![r] = IdleRun]
  /\ UNCHANGED <<assertions, contradictions, canonical, now, config, awc, nAdds, nRuns, otherVars>>

\* Consolidator.GetCanonicalFacts: the records under the canonical prefix, in
\* key order
GetCanonicalFacts == ScanIds(canonical, DOMAIN canonical)

\* ------------------------------------------------------------------ Explain
\* db.Get(key); ok is false when the store fails.  A key that is not stored
\* gives a nil value and no error.
Get(store, key, ok) ==
  IF ~ok THEN [value |-> <<>>, nil |-> TRUE, err |-> TRUE]
  ELSE IF key \in DOMAIN store THEN [value |-> store[key], nil |-> FALSE, err |-> FALSE]
  ELSE [value |-> <<>>, nil |-> TRUE, err |-> FALSE]

\* Consolidator.Explain(factID); ok is the outcome of db.Get.  json.Unmarshal
\* of a nil value fails (unexpected end of JSON input).
Explain(factID, ok) ==
  /\ LET got == Get(canonical, factID, ok)
         present == factID \in DOMAIN canonical
     IN explained' =
          IF got.err
            THEN [id |-> factID, present |-> present, get |-> "error",
                  result |-> [evidence_count |-> 0, sources |-> <<>>, confidence |-> <<0, 1>>],
                  err |-> "none"]
          ELSE IF got.nil
            THEN [id |-> factID, present |-> present, get |-> "nil",
                  result |-> <<>>, err |-> "unmarshal"]
          ELSE [id |-> factID, present |-> present, get |-> "value",
                result |-> [evidence_count |-> Len(got.value.sources),
                            sources |-> got.value.sources,
                            confidence |-> got.value.confidence],
                err |-> "none"]
  /\ UNCHANGED <<consolidatorVars, packageVars, retrieverVars>>

\* ---------------------------------------------------------- HybridRetriever
\* A text is a sequence of characters.  The characters of the model: letters
\* in both cases, punctuation of the cutset of tokenize, the space.
Lower == ("A" :> "a") @@ ("B" :> "b")
Cutset == {".", ",", "!", "?"}
Whitespace == {" "}

\* strings.ToLower
ToLower(text) ==
  [i \in DOMAIN text |-> IF text[i] \in DOMAIN Lower THEN Lower[text[i]] ELSE text[i]]

\* strings.Fields: the maximal runs of characters that are not white space
RECURSIVE Fields(_)
Fields(text) ==
  IF text = <<>> THEN <<>>
  ELSE IF Head(text) \in Whitespace THEN Fields(Tail(text))
  ELSE LET n == CHOOSE n \in 1..Len(text) :
                  /\ \A i \in 1..n : text[i] \notin Whitespace
                  /\ n = Len(text) \/ text[n + 1] \in Whitespace
       IN <<SubSeq(text, 1, n)>> \o Fields(SubSeq(text, n + 1, Len(text)))

\* a plausible slip: at most one cutset character taken off each end
TrimOne(term) ==
  LET from == IF term # <<>> /\ term[1] \in Cutset THEN 2 ELSE 1
      to == IF Len(term) >= from /\ term[Len(term)] \in Cutset THEN Len(term) - 1 ELSE Len(term)
  IN SubSeq(term, from, to)

\* strings.Trim(term, cutset): the leading and trailing cutset characters off
Trim(term) ==
  LET keep == {i \in DOMAIN term : term[i] \notin Cutset}
  IN IF keep = {} THEN <<>>
     ELSE SubSeq(term, Min(keep), CHOOSE i \in keep : \A j \in keep : j <= i)

tokenize(text) ==
  LET terms == Fields(ToLower(text))
  IN SelectSeq([i \in DOMAIN terms |-> Trim(terms[i])], LAMBDA term : Len(term) > 0)

\* m[k] of a Go map: the zero value when k is no key
MapGet(m, k, zero) == IF k \in DOMAIN m THEN m[k] ELSE zero

Count(term, terms) == Cardinality({i \in DOMAIN terms : terms[i] = term})

\* math.Log((N - df + 0.5)/(df + 0.5) + 1.0) in units of 1e-5, rounded, at
\* row N + 1 and column df
LnE5 ==
  << <<-40547, -91629, -125276, -150408, -170475, -187180, -201490, -214007, -225129, -235138, -244235, -252573>>,
     <<28768, -22314, -55962, -81093, -101160, -117865, -132176, -144692, -155814, -165823, -174920, -183258>>,
     <<69315, 18232, -15415, -40547, -60614, -77319, -91629, -104145, -115268, -125276, -134373, -142712>>,
     <<98083, 47000, 13353, -11778, -31845, -48551, -62861, -75377, -86500, -96508, -105605, -113943>>,
     <<120397, 69315, 35667, 10536, -9531, -26236, -40547, -53063, -64185, -74194, -83291, -91629>> >>

\* a float64 of the scorer: not-a-number, or v units of 1e-5
Float(v) == [nan |-> FALSE, v |-> v]
NaN == [nan |-> TRUE, v |-> 0]
FAdd(x, y) == IF x.nan \/ y.nan THEN NaN ELSE Float(x.v + y.v)

\* one pass of the loop of Score over the query terms: what the term adds to
\* the score.  With k1 = 3/2, b = 3/4 and avgDocLength = num/den,
\*   numerator / denominator
\*     = 20 tf num / (8 tf num + 3 num + 9 docLength den);
\* with avgDocLength = 0 the quotient docLength/avgDocLength is +Inf, or NaN
\* for docLength = 0.
termScore(bm, term, docTerms, docLength) ==
  LET tf == Count(term, docTerms)
      df == MapGet(bm.termDocFreq, term, 0)
      idf == LnE5[bm.documentCount + 1][df]
      num == bm.avgDocLength[1]
      den == bm.avgDocLength[2]
  IN IF df = 0 THEN Float(0)
     ELSE IF num = 0 THEN (IF docLength = 0 THEN NaN ELSE Float(0))
     ELSE Float((idf * 20 * tf * num) \div (8 * tf * num + 3 * num + 9 * docLength * den))

RECURSIVE SumFloats(_)
SumFloats(s) == IF s = <<>> THEN Float(0) ELSE FAdd(Head(s), SumFloats(Tail(s)))

\* BM25Scorer.Score(query, docID) on the scorer bm
Score(bm, query, docID) ==
  IF docID \notin DOMAIN bm.documents THEN Float(0)
  ELSE LET queryTerms == tokenize(query)
           docTerms == tokenize(bm.documents[docID])
           docLength == MapGet(bm.documentLengths, docID, 0)
       IN SumFloats([i \in DOMAIN queryTerms |->
                       termScore(bm, queryTerms[i], docTerms, docLength)])

\* ---- the constructors, over the database as it is
NewHybridRetriever(arg) ==
  /\ idx.pc = "idle"
  /\ rconfig' = NewHybridRetrieverConfig(arg)
  /\ bm25' = NewBM25Scorer
  /\ retrieved' = NoRetrieve
  /\ idx' = IdleIdx
  /\ UNCHANGED <<consolidatorVars, packageVars, explained, docs>>

NewConsolidator(arg) ==
  /\ awc = IdleAwc
  /\ \A r \in DOMAIN run : run[r] = IdleRun
  /\ config' = NewConsolidatorConfig(arg)
  /\ UNCHANGED <<assertions, contradictions, canonical, now, awc, run, nAdds, nRuns, otherVars>>

\* ---- HybridRetriever.IndexDocuments
\* the call; documents maps ids to documents
IndexDocuments(documents) ==
  /\ idx.pc = "idle"
  /\ idx' = [pc |-> "store", documents |-> documents, left |-> DOMAIN documents,
             totalLength |-> 0, err |-> "none", calls |-> idx.calls + 1, before |-> <<>>]
  /\ UNCHANGED <<consolidatorVars, packageVars, explained, docs, bm25, retrieved, rconfig>>

\* a plausible slip: a document entered into the BM25 index as it is stored
IndexDocumentsPutAndIndex(id, ok) ==
  /\ idx.pc = "store"
  /\ id \in idx.left
  /\ IF ok
       THEN /\ docs' = Put(docs, id, idx.documents[id])
            /\ bm25' = IF idx.documents[id].hasText
                         THEN [bm25 EXCEPT !.documents = Put(@, id, idx.documents[id].text)]
                         ELSE bm25
            /\ idx' = [idx EXCEPT !.left = @ \ {id}]
       ELSE /\ docs' = docs
            /\ bm25' = bm25
            /\ idx' = [idx EXCEPT !.pc = "done", !.err = "store"]
  /\ UNCHANGED <<consolidatorVars, packageVars, explained, retrieved, rconfig>>

\* one pass of the loop that stores the documents (a Go map: any order); ok
\* is the outcome of json.Marshal and db.Put
IndexDocumentsPut(id, ok) ==
  /\ idx.pc = "store"
  /\ id \in idx.left
  /\ IF ok
       THEN /\ docs' = Put(docs, id, idx.documents[id])
            /\ idx' = [idx EXCEPT !.left = @ \ {id}]
       ELSE /\ docs' = docs
            /\ idx' = [idx EXCEPT !.pc = "done", !.err = "store"]
  /\ UNCHANGED <<consolidatorVars, packageVars, explained, bm25, retrieved, rconfig>>

\* the documents whose text field is a string, by id
textMap(documents) ==
  [id \in {d \in DOMAIN documents : documents[d].hasText} |-> documents[id].text]

\* the build of textMap and the first statements of BM25Scorer.IndexDocuments
BM25IndexDocuments ==
  /\ idx.pc = "store"
  /\ idx.left = {}
  /\ bm25' = [bm25 EXCEPT !.documents = textMap(idx.documents),
                          !.documentCount = Cardinality(DOMAIN textMap(idx.documents))]
  /\ idx' = [idx EXCEPT !.pc = "bm25", !.left = DOMAIN textMap(idx.documents),
                        !.totalLength = 0, !.before = bm25]
  /\ UNCHANGED <<consolidatorVars, packageVars, explained, docs, retrieved, rconfig>>

\* m[k] = v on a Go map
MapPut(m, k, v) == [x \in DOMAIN m \cup {k} |-> IF x = k THEN v ELSE m[x]]

\* the body of the loop of BM25Scorer.IndexDocuments over docs, for document
\* id: the scorer it leaves.  The length and the document frequencies are
\* written into the maps the scorer already has.
indexDocument(bm, id) ==
  LET terms == tokenize(bm.documents[id])
      seen == {terms[i] : i \in DOMAIN terms}
  IN [bm EXCEPT
        !.documentLengths = MapPut(@, id, Len(terms)),
        !.termDocFreq =
           [t \in DOMAIN @ \cup seen |-> MapGet(@, t, 0) + (IF t \in seen THEN 1 ELSE 0)]]

\* one pass of that loop
BM25IndexDocument(id) ==
  /\ idx.pc = "bm25"
  /\ id \in idx.left
  /\ bm25' = indexDocument(bm25, id)
  /\ idx' = [idx EXCEPT !.left = @ \ {id},
                        !.totalLength = @ + Len(tokenize(bm25.documents[id]))]
  /\ UNCHANGED <<consolidatorVars, packageVars, explained, docs, retrieved, rconfig>>

\* the last statement of BM25Scorer.IndexDocuments, and the return
BM25IndexAverage ==
  /\ idx.pc = "bm25"
  /\ idx.left = {}
  /\ bm25' = IF bm25.documentCount > 0
               THEN [bm25 EXCEPT !.avgDocLength = Rat(idx.totalLength, bm25.documentCount)]
               ELSE bm25
  /\ idx' = [idx EXCEPT !.pc = "done"]
  /\ UNCHANGED <<consolidatorVars, packageVars, explained, docs, retrieved, rconfig>>

\* BM25Scorer.IndexDocuments(docs) as a whole, on the scorer bm
RECURSIVE indexLoop(_, _, _)
indexLoop(bm, left, totalLength) ==
  IF left = {}
    THEN IF bm.documentCount > 0
           THEN [bm EXCEPT !.avgDocLength = Rat(totalLength, bm.documentCount)]
           ELSE bm
    ELSE LET id == CHOOSE id \in left : TRUE
         IN indexLoop(indexDocument(bm, id), left \ {id},
                      totalLength + Len(tokenize(bm.documents[id])))

BM25ScorerIndexDocuments(bm, documents) ==
  indexLoop([bm EXCEPT !.documents = documents,
                       !.documentCount = Cardinality(DOMAIN documents)],
            DOMAIN documents, 0)

\* the caller has the result of IndexDocuments
IndexDocumentsReturned ==
  /\ idx.pc = "done"
  /\ idx' = [IdleIdx EXCEPT !.calls = idx.calls]
  /\ UNCHANGED <<consolidatorVars, packageVars, explained, docs, bm25, retrieved, rconfig>>

\* ---- HybridRetriever.Retrieve
\* cosineSimilarity(query, text) as the pair <<d, m>> that stands for
\* d / sqrt(m): d the dot product of the term frequencies, m the product of
\* the squared magnitudes; <<0, 1>> where the code returns 0
cosineSimilarity(query, text) ==
  LET queryTerms == tokenize(query)
      textTerms == tokenize(text)
      qs == {queryTerms[i] : i \in DOMAIN queryTerms}
      ts == {textTerms[i] : i \in DOMAIN textTerms}
      RECURSIVE Sum(_, _)
      Sum(f, S) == IF S = {} THEN 0
                   ELSE LET t == CHOOSE t \in S : TRUE IN f[t] + Sum(f, S \ {t})
      dotProduct == Sum([t \in qs \cap ts |-> Count(t, queryTerms) * Count(t, textTerms)],
                        qs \cap ts)
      queryMag2 == Sum([t \in qs |-> Count(t, queryTerms) * Count(t, queryTerms)], qs)
      textMag2 == Sum([t \in ts |-> Count(t, textTerms) * Count(t, textTerms)], ts)
  IN IF queryTerms = <<>> \/ textTerms = <<>> THEN <<0, 1>>
     ELSE <<dotProduct, queryMag2 * textMag2>>

\* the comparisons score > score of the three sorts
FloatGreater(x, y) == ~x.nan /\ ~y.nan /\ x.v > y.v
CosineGreater(x, y) == x[1] * x[1] * y[2] > y[1] * y[1] * x[2]
RatGreater(x, y) == x[1] * y[2] > y[1] * x[2]

\* the orders sort.Slice can leave ids in, above the pairs <<x, y>> with
\* score of x > score of y: the slice is built from a map in any order and
\* sorted by an unstable sort, so ties stay in any order
SortSlice(ids, above) ==
  LET n == Cardinality(ids)
  IN {o \in [1..n -> ids] :
        /\ \A i, j \in 1..n : i # j => o[i] # o[j]
        /\ \A i, j \in 1..n : i < j => <<o[j], o[i]>> \notin above}

\* a plausible slip: the combined scores sorted in ascending order
CombinedBelow(scores) ==
  {p \in (DOMAIN scores) \X (DOMAIN scores) : RatGreater(scores[p[2]], scores[p[1]])}

\* the pairs <<x, y>> of ids with score of x > score of y, for the lexical,
\* the semantic and the combined scores
LexicalAbove(scores) ==
  {p \in (DOMAIN scores) \X (DOMAIN scores) : FloatGreater(scores[p[1]], scores[p[2]])}
SemanticAbove(scores) ==
  {p \in (DOMAIN scores) \X (DOMAIN scores) : CosineGreater(scores[p[1]], scores[p[2]])}
CombinedAbove(scores) ==
  {p \in (DOMAIN scores) \X (DOMAIN scores) : RatGreater(scores[p[1]], scores[p[2]])}

\* rankScores: the position of each id in the sorted slice
rankScores(sorted) ==
  [id \in {sorted[i] : i \in DOMAIN sorted} |-> CHOOSE i \in DOMAIN sorted : sorted[i] = id]

\* a plausible slip: the weights left out of the fusion
reciprocalRankFusionUnweighted(lexicalRanks, semanticRanks, k) ==
  [id \in DOMAIN lexicalRanks \cup DOMAIN semanticRanks |->
     LET lexRank == MapGet(lexicalRanks, id, 0)
         semRank == MapGet(semanticRanks, id, 0)
     IN Rat((k + semRank) + (k + lexRank), (k + lexRank) * (k + semRank))]

\* reciprocalRankFusion, given the two rankings: an id without a semantic
\* score has rank 0 in the semantic ranks; the weights are in tenths, the
\* score an exact fraction
reciprocalRankFusion(lexicalRanks, semanticRanks, k) ==
  [id \in DOMAIN lexicalRanks \cup DOMAIN semanticRanks |->
     LET lexRank == MapGet(lexicalRanks, id, 0)
         semRank == MapGet(semanticRanks, id, 0)
     IN Rat(rconfig.LexicalWeight * (k + semRank) + rconfig.SemanticWeight * (k + lexRank),
            10 * (k + lexRank) * (k + semRank))]

\* AllowedSet.IsAllowed of the kinds AllAllowedSet, IdsAllowedSet and
\* FilterAllowedSet, the filter being the one of the pre-filtering example
IsAllowed(allowed, id, doc) ==
  CASE allowed.kind = "all" -> TRUE
    [] allowed.kind = "ids" -> id \in allowed.ids
    [] allowed.kind = "filter" -> doc.category \in allowed.categories

\* txn.ScanPrefix and the calls of iter.Next: the records the iterator
\* yields before Next returns ok = false, which is all of them unless the scan
\* fails on the way
ScanPrefix(store, yielded) == [id \in yielded |-> store[id]]

\* getAllDocuments: the documents the scan yielded, by id; the error it
\* returns is nil on every path
getAllDocuments(yielded) == ScanPrefix(docs, yielded)

\* a plausible slip: the results cut one place after the limit
LimitedOneMore(scored, combined, documents) ==
  LET limit == IF rconfig.Limit + 1 > Len(scored) THEN Len(scored) ELSE rconfig.Limit + 1
  IN [i \in 1..limit |->
        [id |-> scored[i], doc |-> documents[scored[i]], score |-> combined[scored[i]]]]

\* the first limit elements of scored, each with its _score
Limited(scored, combined, documents) ==
  LET limit == IF rconfig.Limit > Len(scored) THEN Len(scored) ELSE rconfig.Limit
  IN [i \in 1..limit |->
        [id |-> scored[i], doc |-> documents[scored[i]], score |-> combined[scored[i]]]]

\* pre-filter by AllowedSet: the ids of the documents that pass
\* (the variant that lets every document pass comes first)
prefilterNone(documents, allowed) == DOMAIN documents

prefilter(documents, allowed) ==
  {id \in DOMAIN documents : IsAllowed(allowed, id, documents[id])}

\* Retrieve; yielded are the ids of the documents the scan of the store
\* gives.  The scorer is read as it is at this moment.
Retrieve(query, allowed, yielded) ==
  LET documents == getAllDocuments(yielded)
      filtered == prefilter(documents, allowed)
      lexicalScores == [id \in filtered |-> Score(bm25, query, id)]
      semanticScores == [id \in {d \in filtered : documents[d].hasText} |->
                           cosineSimilarity(query, documents[id].text)]
      call == [NoRetrieve EXCEPT !.query = query, !.allowed = allowed,
                                 !.partial = (yielded # DOMAIN docs)]
  IN /\ yielded \subseteq DOMAIN docs
     /\ IF filtered = {}
          THEN retrieved' = call
          ELSE \E lexicalSorted \in SortSlice(DOMAIN lexicalScores, LexicalAbove(lexicalScores)),
                  semanticSorted \in SortSlice(DOMAIN semanticScores,
                                                SemanticAbove(semanticScores)) :
                 LET lexicalRanks == rankScores(lexicalSorted)
                     semanticRanks == rankScores(semanticSorted)
                     combined == reciprocalRankFusion(lexicalRanks, semanticRanks,
                                                      rconfig.RRFConstant)
                 IN \E scored \in SortSlice(DOMAIN combined, CombinedAbove(combined)) :
                      retrieved' = [call EXCEPT
                                      !.candidates = filtered,
                                      !.lexicalRanks = lexicalRanks,
                                      !.semanticRanks = semanticRanks,
                                      !.combined = combined,
                                      !.results = Limited(scored, combined, documents)]
     /\ UNCHANGED <<consolidatorVars, packageVars, explained, docs, bm25, rconfig, idx>>

\* Retrieve while BM25Scorer.IndexDocuments writes the maps of the scorer: a
\* data race, and the Go runtime may end the program with "concurrent map
\* read and map write"
RetrieveFatal(query, allowed) ==
  /\ idx.pc = "bm25"
  /\ retrieved' = [NoRetrieve EXCEPT !.query = query, !.allowed = allowed, !.err = "fatal"]
  /\ UNCHANGED <<consolidatorVars, packageVars, explained, docs, bm25, rconfig, idx>>

\* -------------------------------------------------------------- Transaction
\* Every method holds txn.mu from its first statement to its return, so a
\* call is one step.  ok is the outcome of the call to the client.
ErrTxnCommitted == "toondb: transaction already committed"
ErrTxnAborted == "toondb: transaction already aborted"

\* a plausible slip: only the committed flag looked at
ensureActiveCommittedOnly(t) ==
  IF t.committed THEN ErrTxnCommitted ELSE "nil"

ensureActive(t) ==
  IF t.committed THEN ErrTxnCommitted
  ELSE IF t.aborted THEN ErrTxnAborted
  ELSE "nil"

\* the frame of the Transaction methods
TransactionFrame == <<consolidatorVars, explained, retrieverVars, pq, cache, ctx>>

\* the record of a call that got as far as the client, or did not
Called(t, op, err, reached) ==
  [t EXCEPT !.calls = @ + 1, !.last = [op |-> op, err |-> err, reached |-> reached]]

TransactionGet(key, ok) ==
  /\ txn' = IF ensureActive(txn) # "nil"
              THEN Called(txn, "Get", ensureActive(txn), FALSE)
              ELSE Called(txn, "Get", IF ok THEN "nil" ELSE "client", TRUE)
  /\ UNCHANGED TransactionFrame

TransactionPut(key, value, ok) ==
  /\ txn' = IF ensureActive(txn) # "nil"
              THEN Called(txn, "Put", ensureActive(txn), FALSE)
              ELSE IF ok
                THEN [Called(txn, "Put", "nil", TRUE) EXCEPT !.store = Put(@, key, value)]
                ELSE Called(txn, "Put", "client", TRUE)
  /\ UNCHANGED TransactionFrame

TransactionDelete(key, ok) ==
  /\ txn' = IF ensureActive(txn) # "nil"
              THEN Called(txn, "Delete", ensureActive(txn), FALSE)
              ELSE IF ok
                THEN [Called(txn, "Delete", "nil", TRUE) EXCEPT
                        !.store = [k \in DOMAIN @ \ {key} |-> @[k]]]
                ELSE Called(txn, "Delete", "client", TRUE)
  /\ UNCHANGED TransactionFrame

Commit(ok) ==
  /\ txn' = IF ensureActive(txn) # "nil"
              THEN Called(txn, "Commit", ensureActive(txn), FALSE)
              ELSE IF ok
                THEN [Called(txn, "Commit", "nil", TRUE) EXCEPT !.committed = TRUE]
                ELSE Called(txn, "Commit", "TransactionError", TRUE)
  /\ UNCHANGED TransactionFrame

Abort(ok) ==
  /\ txn' = IF txn.committed \/ txn.aborted
              THEN Called(txn, "Abort", "nil", FALSE)
              ELSE IF ok
                THEN [Called(txn, "Abort", "nil", TRUE) EXCEPT !.aborted = TRUE]
                ELSE Called(txn, "Abort", "TransactionError", TRUE)
  /\ UNCHANGED TransactionFrame

\* ------------------------------------------------------------ PriorityQueue
QueueFrame == <<consolidatorVars, explained, retrieverVars, txn, cache, ctx>>

\* generateTaskID: the time in nanoseconds and a random string, modelled as
\* an id not given before
generateTaskID(q) == q.calls + 1

\* getStat, incrementStat and decrementStat on the counters kept in the
\* database under _queue_stats/<name>/<stat>
getStat(stats, name) == MapGet(stats, name, 0)
incrementStat(stats, name) == MapPut(stats, name, getStat(stats, name) + 1)
decrementStat(stats, name) ==
  IF getStat(stats, name) > 0 THEN MapPut(stats, name, getStat(stats, name) - 1) ELSE stats

\* getTask: "TODO: Implement task lookup", return nil, nil
getTask(q, taskID) == <<>>

\* updateTask: "TODO: Implement task update", return nil
updateTask(q, task) == q

\* PriorityQueue.Enqueue; ok is the outcome of db.Put (or of the type switch
\* on the database)
Enqueue(priority, payload, ok) ==
  LET taskID == generateTaskID(pq)
      key == [Priority |-> priority, ReadyTs |-> now, Sequence |-> pq.sequenceCounter,
              TaskID |-> taskID]
      task == [TaskID |-> taskID, Priority |-> priority, Payload |-> payload,
               State |-> "pending", EnqueuedAt |-> now, ClaimedBy |-> "", Retries |-> 0]
  IN /\ pq' = IF ok
                THEN [pq EXCEPT !.sequenceCounter = @ + 1,
                                !.tasks = Put(@, key, task),
                                !.stats = incrementStat(incrementStat(@, "totalEnqueued"),
                                                        "pending"),
                                !.calls = @ + 1,
                                !.last = [op |-> "Enqueue", result |-> <<taskID>>, err |-> "nil"]]
                ELSE [pq EXCEPT !.sequenceCounter = @ + 1,
                                !.calls = @ + 1,
                                !.last = [op |-> "Enqueue", result |-> <<>>, err |-> "put"]]
     /\ UNCHANGED QueueFrame

\* PriorityQueue.Dequeue: "TODO: Implement range scan to find first ready
\* task", return nil, nil
Dequeue(workerID) ==
  /\ pq' = [pq EXCEPT !.calls = @ + 1,
                      !.last = [op |-> "Dequeue", result |-> <<>>, err |-> "nil"]]
  /\ UNCHANGED QueueFrame

\* PriorityQueue.Ack
Ack(taskID) ==
  LET task == getTask(pq, taskID)
  IN /\ pq' = IF task = <<>>
                THEN [pq EXCEPT !.calls = @ + 1,
                                !.last = [op |-> "Ack", result |-> <<taskID>>,
                                          err |-> "task not found"]]
                ELSE IF task[1].State # "claimed"
                  THEN [pq EXCEPT !.calls = @ + 1,
                                  !.last = [op |-> "Ack", result |-> <<taskID>>,
                                            err |-> "task not in claimed state"]]
                  ELSE [updateTask(pq, [task[1] EXCEPT !.State = "completed"]) EXCEPT
                          !.stats = incrementStat(decrementStat(@, "claimed"), "completed"),
                          !.calls = @ + 1,
                          !.last = [op |-> "Ack", result |-> <<taskID>>, err |-> "nil"]]
     /\ UNCHANGED QueueFrame

\* ------------------------------------------------------------ SemanticCache
CacheFrame == <<consolidatorVars, explained, retrieverVars, txn, pq, ctx>>

\* float32(math.Sqrt(float64(n))) for the sums of squares of the model, all
\* of them squares
Sqrt == [n \in {0, 1, 25} |-> IF n = 25 THEN 5 ELSE n]

RECURSIVE Dot(_, _)
Dot(a, b) == IF a = <<>> THEN 0 ELSE a[1] * b[1] + Dot(Tail(a), Tail(b))

\* semanticCosineSimilarity(a, b): the score as a rational, or an error
semanticCosineSimilarity(a, b) ==
  IF Len(a) # Len(b) THEN [err |-> TRUE, score |-> <<0, 1>>]
  ELSE IF Dot(a, a) = 0 \/ Dot(b, b) = 0 THEN [err |-> FALSE, score |-> <<0, 1>>]
  ELSE [err |-> FALSE, score |-> Rat(Dot(a, b), Sqrt[Dot(a, a)] * Sqrt[Dot(b, b)])]

\* SemanticCache.Put; ok is the outcome of db.Put
SemanticCachePut(key, value, embedding, ttlSeconds, ok) ==
  LET entry == [Key |-> key, Value |-> value, Embedding |-> embedding,
                Timestamp |-> now, TTL |-> ttlSeconds]
  IN /\ cache' = [cache EXCEPT !.entries = IF ok THEN Put(@, key, entry) ELSE @,
                               !.calls = @ + 1,
                               !.last = [NoCacheCall EXCEPT !.op = "Put"]]
     /\ UNCHANGED CacheFrame

\* a plausible slip: an entry dropped at the second it expires
expiredAtExpiry(entry, t) ==
  entry.TTL > 0 /\ entry.Timestamp > 0 /\ t >= entry.Timestamp + entry.TTL

\* the TTL check of Get
expired(entry, t) ==
  entry.TTL > 0 /\ entry.Timestamp > 0 /\ t > entry.Timestamp + entry.TTL

\* the loop of Get over the entries in scan order: the best match so far
\* (none: <<>>) and its score
RECURSIVE scanLoop(_, _, _, _, _)
scanLoop(es, queryEmbedding, t, bestMatch, bestScore) ==
  IF es = <<>> THEN bestMatch
  ELSE LET entry == Head(es)
           sim == semanticCosineSimilarity(queryEmbedding, entry.Embedding)
       IN IF expired(entry, t) \/ sim.err \/ ~RatGreater(sim.score, bestScore)
            THEN scanLoop(Tail(es), queryEmbedding, t, bestMatch, bestScore)
            ELSE scanLoop(Tail(es), queryEmbedding, t,
                          <<[entry |-> entry, Score |-> sim.score]>>, sim.score)

\* SemanticCache.Get
SemanticCacheGet(queryEmbedding, threshold) ==
  LET bestMatch == scanLoop(ScanIds(cache.entries, DOMAIN cache.entries),
                            queryEmbedding, now, <<>>, threshold)
  IN /\ cache' = [cache EXCEPT !.hits = IF bestMatch # <<>> THEN @ + 1 ELSE @,
                               !.misses = IF bestMatch # <<>> THEN @ ELSE @ + 1,
                               !.calls = @ + 1,
                               !.last = [op |-> "Get", query |-> queryEmbedding,
                                         threshold |-> threshold, hit |-> bestMatch]]
     /\ UNCHANGED CacheFrame

\* ------------------------------------------------------ ContextQueryBuilder
\* The content of a section is modelled by its length in bytes.
BuilderFrame == <<consolidatorVars, explained, retrieverVars, txn, pq, cache>>

WithBudget(tokens) ==
  /\ ctx' = [ctx EXCEPT !.tokenBudget = tokens]
  /\ UNCHANGED BuilderFrame

SetTruncation(strategy) ==
  /\ ctx' = [ctx EXCEPT !.truncation = strategy]
  /\ UNCHANGED BuilderFrame

\* len(text) / 4
estimateTokens(text) == text \div 4

Literal(name, priority, text) ==
  /\ ctx' = [ctx EXCEPT !.sections = Append(@, [Name |-> name, Priority |-> priority,
                                                 Content |-> text,
                                                 TokenCount |-> estimateTokens(text)])]
  /\ UNCHANGED BuilderFrame

\* the orders sort.Slice may leave the sections in: priority ascending,
\* sections of equal priority in any order
PrioritySorted(sections) ==
  {t \in Perms(sections) : \A i \in 1..(Len(t) - 1) : ~(t[i + 1].Priority < t[i].Priority)}

RECURSIVE TotalTokens(_)
TotalTokens(sections) ==
  IF sections = <<>> THEN 0 ELSE Head(sections).TokenCount + TotalTokens(Tail(sections))

\* the loop of tailDropTruncation from tokenCount on
RECURSIVE tailDropLoop(_, _, _)
tailDropLoop(sections, tokenCount, budget) ==
  IF sections = <<>> THEN <<>>
  ELSE IF tokenCount + Head(sections).TokenCount <= budget
    THEN <<Head(sections)>> \o tailDropLoop(Tail(sections),
                                            tokenCount + Head(sections).TokenCount, budget)
    ELSE <<>>

tailDropTruncation(sections, budget) == tailDropLoop(sections, 0, budget)

\* the loop of headDropTruncation with dropped tokens so far
RECURSIVE headDropLoop(_, _, _)
headDropLoop(sections, dropped, toDrop) ==
  IF sections = <<>> THEN <<>>
  ELSE IF dropped + Head(sections).TokenCount <= toDrop
    THEN headDropLoop(Tail(sections), dropped + Head(sections).TokenCount, toDrop)
    ELSE <<Head(sections)>> \o headDropLoop(Tail(sections), dropped, toDrop)

headDropTruncation(sections, budget) ==
  IF TotalTokens(sections) - budget <= 0 THEN sections
  ELSE headDropLoop(sections, 0, TotalTokens(sections) - budget)

\* int(float64(n) * factor) with factor = budget / totalTokens, budget >= 0
Scaled(n, budget, totalTokens) == (n * budget) \div totalTokens

proportionalTruncation(sections, budget) ==
  IF TotalTokens(sections) <= budget THEN sections
  ELSE [i \in DOMAIN sections |->
          [sections[i] EXCEPT
             !.TokenCount = IF Scaled(@, budget, TotalTokens(sections)) < 1 THEN 1
                            ELSE Scaled(@, budget, TotalTokens(sections)),
             !.Content = Scaled(@, budget, TotalTokens(sections))]]

applyTruncation(sections, strategy, budget) ==
  IF strategy = "tail_drop" THEN tailDropTruncation(sections, budget)
  ELSE IF strategy = "head_drop" THEN headDropTruncation(sections, budget)
  ELSE IF strategy = "proportional" THEN proportionalTruncation(sections, budget)
  ELSE sections

\* Execute on the builder: sorted is the order the sort left the sections in.
\* The text is modelled by the names and content lengths it is written from;
\* kept is the local sortedSections after truncation.
Execute(sorted) ==
  LET totalTokens == TotalTokens(sorted)
      truncated == totalTokens > ctx.tokenBudget
      kept == IF truncated THEN applyTruncation(sorted, ctx.truncation, ctx.tokenBudget)
              ELSE sorted
  IN /\ sorted \in PrioritySorted(ctx.sections)
     /\ ctx' = [ctx EXCEPT !.result =
                  <<[Text |-> [i \in DOMAIN kept |-> <<kept[i].Name, kept[i].Content>>],
                     TokenCount |-> TotalTokens(kept),
                     Sections |-> [i \in DOMAIN kept |->
                                     [Name |-> kept[i].Name,
                                      TokenCount |-> kept[i].TokenCount,
                                      Truncated |-> FALSE]],
                     Truncated |-> truncated,
                     kept |-> kept,
                     totalTokens |-> totalTokens]>>]
     /\ UNCHANGED BuilderFrame

\* a call has returned and its caller has not yet taken the result
Returning == awc.pc = "done" \/ \E r \in Runners : run[r].pc = "done"

\* --------------------------------------------------------- specifications
\* Spec: the calls of concurrent callers, interleaved at the store operations.
Inputs ==
  [id : {1, 2}, fact : {FAge32, FAge33}, source : {"linkedin"},
   confidence : {80}, timestamp : {0}]

ContradictLists == {<<>>, <<1>>, <<2>>, <<1, 2>>}

Next ==
  \/ \E a \in Inputs, ok \in BOOLEAN : ~Returning /\ nAdds < MaxAdds /\ Add(a, ok)
  \/ \E a \in Inputs, l \in ContradictLists, ok \in BOOLEAN :
        ~Returning /\ nAdds < MaxAdds /\ AddWithContradiction(a, l, ok)
  \/ \E ok \in BOOLEAN : ~Returning /\ AddWithContradictionEdge(ok)
  \/ AddWithContradictionReturned
  \/ \E r \in Runners : ~Returning /\ nRuns < MaxRuns /\ ConsolidateBegin(r)
  \/ \E r \in Runners : ~Returning /\ ConsolidateReadC(r)
  \/ \E r \in Runners, ok \in BOOLEAN :
        \E key \in run[r].left :
          \E sorted \in SortedOrders(groupOf(run[r].assertions, key)) :
            ~Returning /\ ConsolidateGroup(r, key, sorted, ok)
  \/ \E r \in Runners : ~Returning /\ ConsolidateReturn(r)
  \/ \E r \in Runners : ConsolidateReturned(r)

Spec == Init /\ [][Next]_vars

\* SpecSeq: one caller fills the log while the clock runs, each call made
\* after the previous one has returned, and then consolidates.
Quiescent ==
  /\ awc.pc = "idle"
  /\ \A r \in Runners : run[r].pc = "idle"

SeqInputs ==
  [id : ExplicitIds, fact : {FAge32, FAge33}, source : {"linkedin"},
   confidence : {80}, timestamp : {100}]

SeqContradictLists == {<<>>, <<1>>, <<2>>}

Filling == Quiescent /\ nRuns = 0 /\ nAdds < SeqMaxAdds

NextSeq ==
  \/ \E a \in SeqInputs : Filling /\ Add(a, TRUE)
  \/ \E a \in SeqInputs, l \in SeqContradictLists : Filling /\ AddWithContradiction(a, l, TRUE)
  \/ AddWithContradictionEdge(TRUE)
  \/ AddWithContradictionReturned
  \/ \E r \in Runners : Quiescent /\ nRuns < MaxRuns /\ ConsolidateBegin(r)
  \/ \E r \in Runners : ConsolidateReadC(r)
  \/ \E r \in Runners :
        \E key \in run[r].left :
          \E sorted \in SortedOrders(groupOf(run[r].assertions, key)) :
            ConsolidateGroup(r, key, sorted, TRUE)
  \/ \E r \in Runners : ConsolidateReturn(r)
  \/ \E r \in Runners : ConsolidateReturned(r)
  \/ ~Returning /\ Tick

SpecSeq == InitSeq /\ [][NextSeq]_vars

\* SpecForeign: the same caller on a database in which another writer has
\* left a contradiction edge whose timestamp is not a number.
ForeignEdge == [from |-> 1, to |-> 2]

InitForeign ==
  /\ assertions = <<>>
  /\ contradictions \in {<<>>, Put(<<>>, <<ForeignEdge.from, ForeignEdge.to>>, ForeignEdge)}
  /\ canonical = <<>>
  /\ now = 1
  /\ awc = IdleAwc
  /\ run = [r \in Runners |-> IdleRun]
  /\ nAdds = 0
  /\ nRuns = 0
  /\ InitOther
  /\ config = NewConsolidatorConfig(NilConfig)

SpecForeign == InitForeign /\ [][NextSeq]_vars

\* SpecTwice: one caller adds assertions while the clock runs and calls
\* Consolidate twice, "r1" being the first call and "r2" the second, made
\* after the first has returned.  sort.Slice is a function of the slice it
\* is given: on the group it has sorted before it leaves the same order.
Calls == {"r1", "r2"}

TwiceInputs ==
  {[id |-> i, fact |-> FAge32, source |-> Sources[i], confidence |-> 80, timestamp |-> t] :
     i \in ExplicitIds, t \in {100, 101}}

TwiceContradictLists == {<<>>, <<1>>}

InitTwice ==
  /\ assertions = <<>>
  /\ contradictions = <<>>
  /\ canonical = <<>>
  /\ now = 1
  /\ awc = IdleAwc
  /\ run = [r \in Calls |-> IdleRun]
  /\ nAdds = 0
  /\ nRuns = 0
  /\ InitOther
  /\ config = NewConsolidatorConfig(NilConfig)

BetweenCalls ==
  /\ awc.pc = "idle"
  /\ run["r1"].pc \in {"idle", "done"}
  /\ run["r2"].pc = "idle"

SortedAsBefore(r, key, sorted) ==
  (/\ r = "r2"
   /\ key \in DOMAIN run["r1"].log
   /\ groupOf(run["r1"].assertions, key) = groupOf(run["r2"].assertions, key))
  => sorted = run["r1"].log[key].sorted

NextTwice ==
  \/ \E a \in TwiceInputs : BetweenCalls /\ nAdds < TwiceAdds /\ Add(a, TRUE)
  \/ \E a \in TwiceInputs, l \in TwiceContradictLists :
        BetweenCalls /\ nAdds < TwiceAdds /\ AddWithContradiction(a, l, TRUE)
  \/ AddWithContradictionEdge(TRUE)
  \/ AddWithContradictionReturned
  \/ BetweenCalls /\ Tick
  \/ BetweenCalls /\ run["r1"].pc = "idle" /\ ConsolidateBegin("r1")
  \/ BetweenCalls /\ run["r1"].pc = "done" /\ ConsolidateBegin("r2")
  \/ \E r \in Calls : ConsolidateReadC(r)
  \/ \E r \in Calls :
        \E key \in run[r].left :
          \E sorted \in SortedOrders(groupOf(run[r].assertions, key)) :
            SortedAsBefore(r, key, sorted) /\ ConsolidateGroup(r, key, sorted, TRUE)
  \/ \E r \in Calls : ConsolidateReturn(r)

SpecTwice == InitTwice /\ [][NextTwice]_vars

\* SpecMerge: the same caller with the clock standing still, over assertions
\* that differ in fact, key order, source, confidence and timestamp.
SourceOf == [i \in ExplicitIds |-> Sources[i]]

MergeInputs ==
  {[id |-> i, fact |-> f, source |-> SourceOf[i], confidence |-> c, timestamp |-> 99 + i] :
     i \in ExplicitIds, f \in {FAlice, FAliceRev, FAge32}, c \in {85, 90, 95}}

MergeContradictLists == {<<>>, <<1>>}

NextMerge ==
  \/ \E a \in MergeInputs : Filling /\ Add(a, TRUE)
  \/ \E a \in MergeInputs, l \in MergeContradictLists : Filling /\ AddWithContradiction(a, l, TRUE)
  \/ AddWithContradictionEdge(TRUE)
  \/ AddWithContradictionReturned
  \/ \E r \in Runners : Quiescent /\ nRuns < MergeRuns /\ ConsolidateBegin(r)
  \/ \E r \in Runners : ConsolidateReadC(r)
  \/ \E r \in Runners :
        \E key \in run[r].left :
          \E sorted \in SortedOrders(groupOf(run[r].assertions, key)) :
            ConsolidateGroup(r, key, sorted, TRUE)
  \/ \E r \in Runners : ConsolidateReturn(r)
  \/ \E r \in Runners : ConsolidateReturned(r)

SpecMerge == Init /\ [][NextMerge]_vars

\* SpecOverlap: two goroutines call Consolidate on one Consolidator so that
\* the two runs overlap in time (neither returns before the other has begun),
\* while a third adds assertions of one fact.
Overlapping == {"r1", "r2"}

OverlapInputs ==
  {[id |-> i, fact |-> FAge32, source |-> SourceOf[i], confidence |-> c, timestamp |-> 100] :
     i \in {1, 2}, c \in {80, 90}}

InitOverlap ==
  /\ assertions = <<>>
  /\ contradictions = <<>>
  /\ canonical = <<>>
  /\ now = 1
  /\ awc = IdleAwc
  /\ run = [r \in Overlapping |-> IdleRun]
  /\ nAdds = 0
  /\ nRuns = 0
  /\ InitOther
  /\ config = [UseTemporalUpdates |-> TRUE, MaxConflictAge |-> ConflictAge]

NextOverlap ==
  \/ \E a \in OverlapInputs : nAdds < OverlapAdds /\ Add(a, TRUE)
  \/ \E r \in Overlapping : ConsolidateBegin(r)
  \/ \E r \in Overlapping : ConsolidateReadC(r)
  \/ \E r \in Overlapping :
        \E key \in run[r].left :
          \E sorted \in SortedOrders(groupOf(run[r].assertions, key)) :
            ConsolidateGroup(r, key, sorted, TRUE)
  \/ \E r \in Overlapping :
        (\A o \in Overlapping : run[o].pc # "idle") /\ ConsolidateReturn(r)

SpecOverlap == InitOverlap /\ [][NextOverlap]_vars

\* SpecExplain: one caller adds assertions, consolidates and asks for the
\* provenance of fact ids, stored and not stored.
ExplainIds == {Sha16(Marshal(FAge32)), Sha16(Marshal(FAge33)), Sha16(Marshal(FAlice))}

NextExplain ==
  \/ \E a \in Inputs : Quiescent /\ nAdds < MaxAdds /\ Add(a, TRUE)
  \/ \E r \in Runners : Quiescent /\ nRuns < MaxRuns /\ ConsolidateBegin(r)
  \/ \E r \in Runners : ConsolidateReadC(r)
  \/ \E r \in Runners :
        \E key \in run[r].left :
          \E sorted \in SortedOrders(groupOf(run[r].assertions, key)) :
            ConsolidateGroup(r, key, sorted, TRUE)
  \/ \E r \in Runners : ConsolidateReturn(r)
  \/ \E r \in Runners : ConsolidateReturned(r)
  \/ \E id \in ExplainIds, ok \in BOOLEAN : Quiescent /\ Explain(id, ok)

SpecExplain == Init /\ [][NextExplain]_vars

\* SpecIndex: one caller indexes batches of documents into a retriever and
\* retrieves between the calls.
DocA == [hasText |-> TRUE, text |-> <<"a">>, category |-> "profile"]
DocAB == [hasText |-> TRUE, text |-> <<"A", " ", "b", ".">>, category |-> "other"]
DocB == [hasText |-> TRUE, text |-> <<"b">>, category |-> "other"]
DocEmpty == [hasText |-> TRUE, text |-> <<>>, category |-> "skills"]
DocNoText == [hasText |-> FALSE, text |-> <<>>, category |-> "none"]

Batches ==
  { ("d1" :> DocA),
    ("d1" :> DocA) @@ ("d2" :> DocAB),
    ("d1" :> DocA) @@ ("d2" :> DocB),
    ("d1" :> DocEmpty),
    ("d2" :> DocNoText) }

Queries == { <<"a">>, <<"b">>, <<"a", " ", "b">> }

AllowedSets ==
  { [kind |-> "all"],
    [kind |-> "ids", ids |-> {"d1"}],
    [kind |-> "filter", categories |-> {"profile", "skills"}] }

\* config arguments that name every field
AllRetrievalFields == {"Limit", "LexicalWeight", "SemanticWeight", "RRFConstant"}
FullRetrievalConfigs ==
  { ConfigLiteral(AllRetrievalFields, [DefaultRetrievalConfig EXCEPT !.Limit = 1]),
    ConfigLiteral(AllRetrievalFields,
                  [Limit |-> 10, LexicalWeight |-> 5, SemanticWeight |-> 5, RRFConstant |-> 60]),
    ConfigLiteral(AllRetrievalFields,
                  [Limit |-> 10, LexicalWeight |-> 0, SemanticWeight |-> 0, RRFConstant |-> 60]) }

RetrievalConfigs == {NewHybridRetrieverConfig(arg) : arg \in {NilConfig} \cup FullRetrievalConfigs}

InitIndex ==
  /\ InitAssertions
  /\ InitPackage
  /\ config = [UseTemporalUpdates |-> TRUE, MaxConflictAge |-> ConflictAge]
  /\ explained = NoExplain
  /\ InitRetriever
  /\ rconfig \in RetrievalConfigs

NextIndex ==
  \/ \E documents \in Batches : idx.calls < MaxIndexCalls /\ IndexDocuments(documents)
  \/ \E id \in idx.left, ok \in BOOLEAN : IndexDocumentsPut(id, ok)
  \/ BM25IndexDocuments
  \/ \E id \in idx.left : BM25IndexDocument(id)
  \/ BM25IndexAverage
  \/ IndexDocumentsReturned
  \/ \E query \in Queries, allowed \in AllowedSets :
        idx.pc = "idle" /\ Retrieve(query, allowed, DOMAIN docs)

SpecIndex == InitIndex /\ [][NextIndex]_vars

\* SpecRepeat: one caller indexes, and then retrieves again and again
\* without indexing in between.
NextRepeat ==
  \/ \E documents \in Batches :
        idx.calls < RepeatCalls /\ retrieved = NoRetrieve /\ IndexDocuments(documents)
  \/ \E id \in idx.left : IndexDocumentsPut(id, TRUE)
  \/ BM25IndexDocuments
  \/ \E id \in idx.left : BM25IndexDocument(id)
  \/ BM25IndexAverage
  \/ IndexDocumentsReturned
  \/ \E query \in Queries, allowed \in AllowedSets :
        idx.pc = "idle" /\ Retrieve(query, allowed, DOMAIN docs)

SpecRepeat == InitIndex /\ [][NextRepeat]_vars

\* SpecFusion: one caller indexes three documents, with equal or with
\* different texts, and retrieves once.
FusionBatches ==
  { ("d1" :> DocA) @@ ("d2" :> DocA) @@ ("d3" :> DocA),
    ("d1" :> DocA) @@ ("d2" :> DocAB) @@ ("d3" :> DocB) }

NextFusion ==
  \/ \E documents \in FusionBatches : idx.calls < FusionCalls /\ IndexDocuments(documents)
  \/ \E id \in idx.left : IndexDocumentsPut(id, TRUE)
  \/ BM25IndexDocuments
  \/ \E id \in idx.left : BM25IndexDocument(id)
  \/ BM25IndexAverage
  \/ IndexDocumentsReturned
  \/ \E query \in Queries, allowed \in AllowedSets :
        idx.pc = "idle" /\ retrieved = NoRetrieve /\ Retrieve(query, allowed, DOMAIN docs)

SpecFusion == InitIndex /\ [][NextFusion]_vars

\* SpecTies: callers add assertions of one fact that tie in confidence and
\* timestamp, some from the same source, then consolidate twice.
TieSourceOf == <<"linkedin", "linkedin", "website">>

TieInputs ==
  {[id |-> i, fact |-> FAge32, source |-> TieSourceOf[i], confidence |-> c, timestamp |-> t] :
     i \in ExplicitIds, c \in {80, 90}, t \in {100, 101}}

TieContradictLists == {<<>>, <<3>>}

TieFilling == Quiescent /\ nRuns = 0 /\ nAdds < TieAdds

NextTies ==
  \/ \E a \in TieInputs : TieFilling /\ Add(a, TRUE)
  \/ \E a \in TieInputs, l \in TieContradictLists :
        TieFilling /\ AddWithContradiction(a, l, TRUE)
  \/ AddWithContradictionEdge(TRUE)
  \/ AddWithContradictionReturned
  \/ \E r \in Runners : Quiescent /\ nRuns < TieRuns /\ ConsolidateBegin(r)
  \/ \E r \in Runners : ConsolidateReadC(r)
  \/ \E r \in Runners :
        \E key \in run[r].left :
          \E sorted \in SortedOrders(groupOf(run[r].assertions, key)) :
            ConsolidateGroup(r, key, sorted, TRUE)
  \/ \E r \in Runners : ConsolidateReturn(r)
  \/ \E r \in Runners : ConsolidateReturned(r)

SpecTies == Init /\ [][NextTies]_vars

\* SpecRace: one goroutine indexes while another retrieves; the retriever
\* has no lock.
NextRace ==
  \/ \E documents \in Batches : idx.calls < RaceCalls /\ IndexDocuments(documents)
  \/ \E id \in idx.left : IndexDocumentsPut(id, TRUE)
  \/ BM25IndexDocuments
  \/ \E id \in idx.left : BM25IndexDocument(id)
  \/ BM25IndexAverage
  \/ IndexDocumentsReturned
  \/ \E query \in Queries : Retrieve(query, [kind |-> "all"], DOMAIN docs)
  \/ \E query \in Queries : RetrieveFatal(query, [kind |-> "all"])

SpecRace == Init /\ [][NextRace]_vars

\* SpecScan: one caller indexes and retrieves; the scan of the store may fail
\* after it has given some of the documents.
NextScan ==
  \/ \E documents \in Batches : idx.calls < ScanCalls /\ IndexDocuments(documents)
  \/ \E id \in idx.left : IndexDocumentsPut(id, TRUE)
  \/ BM25IndexDocuments
  \/ \E id \in idx.left : BM25IndexDocument(id)
  \/ BM25IndexAverage
  \/ IndexDocumentsReturned
  \/ \E query \in Queries, allowed \in AllowedSets, yielded \in SUBSET DOMAIN docs :
        idx.pc = "idle" /\ Retrieve(query, allowed, yielded)

SpecScan == Init /\ [][NextScan]_vars

\* SpecTokenize: one caller indexes one document, of any text of at most
\* MaxTextLen characters, into an empty store.
Chars == {"a", "B", ".", " "}

Texts == UNION {[1..n -> Chars] : n \in 0..MaxTextLen}

NextTokenize ==
  \/ \E text \in Texts :
        /\ docs = <<>>
        /\ IndexDocuments("d1" :> [hasText |-> TRUE, text |-> text, category |-> "none"])
  \/ \E id \in idx.left : IndexDocumentsPut(id, TRUE)
  \/ BM25IndexDocuments
  \/ \E id \in idx.left : BM25IndexDocument(id)
  \/ BM25IndexAverage
  \/ IndexDocumentsReturned

SpecTokenize == Init /\ [][NextTokenize]_vars

\* SpecConfig: callers construct consolidators and retrievers with config
\* arguments that name all, some or none of the fields, and use them.
RetrievalConfigArgs ==
  {NilConfig} \cup FullRetrievalConfigs \cup
  { ConfigLiteral({"Limit"}, [Limit |-> 5]),
    ConfigLiteral({"LexicalWeight", "SemanticWeight"}, [LexicalWeight |-> 5, SemanticWeight |-> 5]),
    ConfigLiteral({}, <<>>) }

ConsolidationConfigArgs ==
  { NilConfig,
    ConfigLiteral({"UseTemporalUpdates", "MaxConflictAge"},
                  [UseTemporalUpdates |-> FALSE, MaxConflictAge |-> 2]),
    ConfigLiteral({"MaxConflictAge"}, [MaxConflictAge |-> 2]),
    ConfigLiteral({"UseTemporalUpdates"}, [UseTemporalUpdates |-> TRUE]),
    ConfigLiteral({}, <<>>) }

NextConfig ==
  \/ \E arg \in RetrievalConfigArgs : NewHybridRetriever(arg)
  \/ \E arg \in ConsolidationConfigArgs : NewConsolidator(arg)
  \/ \E documents \in Batches : idx.calls < ConfigCalls /\ IndexDocuments(documents)
  \/ \E id \in idx.left : IndexDocumentsPut(id, TRUE)
  \/ BM25IndexDocuments
  \/ \E id \in idx.left : BM25IndexDocument(id)
  \/ BM25IndexAverage
  \/ IndexDocumentsReturned
  \/ \E a \in Inputs : nAdds < ConfigCalls /\ Add(a, TRUE)

SpecConfig == Init /\ [][NextConfig]_vars

\* SpecGen: callers add assertions without an id.
GenInputs ==
  [id : {0}, fact : {FAge32, FAge33}, source : {"linkedin", "website"},
   confidence : {80, 90}, timestamp : {0, 100}]

NextGen == \E a \in GenInputs, ok \in BOOLEAN : nAdds < GenAdds /\ Add(a, ok)

SpecGen == Init /\ [][NextGen]_vars

\* SpecTransaction: callers use one Transaction, any method in any order,
\* the client failing or not.
TxnKeys == {"k1", "k2"}
TxnValues == {"v1", "v2"}

NextTransaction ==
  \/ \E key \in TxnKeys, ok \in BOOLEAN : txn.calls < MaxTxnCalls /\ TransactionGet(key, ok)
  \/ \E key \in TxnKeys, value \in TxnValues, ok \in BOOLEAN :
        txn.calls < MaxTxnCalls /\ TransactionPut(key, value, ok)
  \/ \E key \in TxnKeys, ok \in BOOLEAN : txn.calls < MaxTxnCalls /\ TransactionDelete(key, ok)
  \/ \E ok \in BOOLEAN : txn.calls < MaxTxnCalls /\ Commit(ok)
  \/ \E ok \in BOOLEAN : txn.calls < MaxTxnCalls /\ Abort(ok)

SpecTransaction == Init /\ [][NextTransaction]_vars

\* SpecQueue: producers enqueue while the clock runs, workers dequeue and
\* acknowledge.
Priorities == {1, 2}
Workers == {"w1", "w2"}

NextQueue ==
  \/ \E priority \in Priorities, ok \in BOOLEAN :
        pq.calls < MaxQueueCalls /\ Enqueue(priority, "payload", ok)
  \/ \E workerID \in Workers : pq.calls < MaxQueueCalls /\ Dequeue(workerID)
  \/ \E taskID \in 1..MaxQueueCalls : pq.calls < MaxQueueCalls /\ Ack(taskID)
  \/ Tick

SpecQueue == Init /\ [][NextQueue]_vars

\* SpecCache: callers put entries under two keys (1 and 2, in key order),
\* with and without a TTL, and get by similarity while the clock runs.
Embeddings == {<<1, 0>>, <<3, 4>>, <<4, 3>>, <<0, 0>>, <<1>>}
Thresholds == {<<0, 1>>, <<4, 5>>, <<1, 1>>}
CacheKeys == {1, 2}
TTLs == {0, 1}

NextCache ==
  \/ \E key \in CacheKeys, embedding \in Embeddings, ttlSeconds \in TTLs, ok \in BOOLEAN :
        cache.calls < MaxCacheCalls /\ SemanticCachePut(key, "value", embedding, ttlSeconds, ok)
  \/ \E queryEmbedding \in Embeddings, threshold \in Thresholds :
        cache.calls < MaxCacheCalls /\ SemanticCacheGet(queryEmbedding, threshold)
  \/ Tick

SpecCache == Init /\ [][NextCache]_vars

\* SpecContext: a caller sets budget and strategy, adds literal sections and
\* executes.
Budgets == {0, 2, 6}
Strategies == {"tail_drop", "head_drop", "proportional"}
SectionNames == {"system", "history"}
Contents == {4, 9, 20}

NextContext ==
  \/ \E tokens \in Budgets : ctx.result = <<>> /\ WithBudget(tokens)
  \/ \E strategy \in Strategies : ctx.result = <<>> /\ SetTruncation(strategy)
  \/ \E name \in SectionNames, priority \in {1, 2}, text \in Contents :
        ctx.result = <<>> /\ Len(ctx.sections) < MaxSections /\ Literal(name, priority, text)
  \/ \E sorted \in PrioritySorted(ctx.sections) : Execute(sorted)

SpecContext == Init /\ [][NextContext]_vars

\* ------------------------------------------------------------------ claims
\* An edge is active (spec 4.3): always when use_temporal_updates is off,
\* otherwise while its age is at most max_conflict_age.
ActiveEdge(e, cfg, t) ==
  ~cfg.UseTemporalUpdates \/ t - e.timestamp <= cfg.MaxConflictAge

Elems(s) == {s[i] : i \in DOMAIN s}

\* C1: in a consolidate run, an assertion read by the run is left out of the
\* contributors of its group if and only if some edge read by the run with
\* from = its id is active at the time of the filter, however many such edges
\* there are and whatever their order; edges with to = its id play no part.
C1_ExcludedIffActiveEdge ==
  \A r \in Runners : \A key \in DOMAIN run[r].log :
    \A a \in Elems(groupOf(run[r].assertions, key)) :
      (a \notin Elems(run[r].log[key].valid))
        <=> \E e \in Elems(run[r].contradictions) :
              e.from = a.id /\ ActiveEdge(e, config, run[r].log[key].at)

\* C2: a raw assertion record once stored under an id is never changed or
\* deleted by a later add, add_with_contradiction or consolidate.
C2_AssertionsImmutable ==
  [][\A id \in DOMAIN assertions :
       /\ id \in DOMAIN assertions'
       /\ assertions'[id].fact = assertions[id].fact
       /\ assertions'[id].source = assertions[id].source
       /\ assertions'[id].confidence = assertions[id].confidence
       /\ assertions'[id].timestamp = assertions[id].timestamp]_vars

\* C3: a consolidate run works on assertions and edges of one snapshot: every
\* edge it uses was written after the assertion the edge points to, so the run
\* has that assertion too.
C3_OneSnapshot ==
  \A r \in Runners :
    run[r].pc \in {"groups", "done"} =>
      \A e \in Elems(run[r].contradictions) :
        \E a \in Elems(run[r].assertions) : a.id = e.to

\* C4: when a consolidate has returned with none of its writes failed (no
\* other call in progress, nothing written to the store since the run read
\* it), every canonical fact in the store whose fact is borne by a stored
\* assertion has as sources only sources
\* of stored assertions that bear the fact and have no active edge with from =
\* their id; a fact whose assertions are all superseded has no canonical fact.
C4_CanonicalsJustified ==
  \A r \in Runners :
    (/\ run[r].pc = "done"
     /\ awc.pc = "idle"
     /\ run[r].assertions = getAllAssertions
     /\ run[r].contradictions = getContradictions
     /\ \A key \in DOMAIN run[r].log : run[r].log[key].put # "failed")
    => \A cid \in DOMAIN canonical :
         (\E a \in Elems(getAllAssertions) : a.fact = canonical[cid].merged_fact)
         => \A src \in Elems(canonical[cid].sources) :
              \E a \in Elems(getAllAssertions) :
                /\ a.fact = canonical[cid].merged_fact
                /\ a.source = src
                /\ ~\E e \in Elems(getContradictions) :
                       e.from = a.id /\ ActiveEdge(e, config, now)

\* the edges a run would read had edge e been written to the store it read
WithEdge(conts, e) ==
  LET store == [k \in {<<conts[i].from, conts[i].to>> : i \in DOMAIN conts} |->
                  CHOOSE c \in Elems(conts) : c.from = k[1] /\ c.to = k[2]]
  IN ScanEdges(Put(store, <<e.from, e.to>>, e), DOMAIN store \cup {<<e.from, e.to>>})

Contributors(group, conts, cfg, t) == {a \in Elems(group) : ~isContradicted(a, conts, cfg, t)}

\* C5: contradiction monotonicity, for the filter of every run: with an edge
\* removed no contributor is lost, and with an active edge with from = a.id
\* added, a is no contributor, whatever other edges with from = a.id exist.
C5_ContradictionMonotone ==
  \A r \in Runners : \A key \in DOMAIN run[r].log :
    LET group == groupOf(run[r].assertions, key)
        conts == run[r].contradictions
        t == run[r].log[key].at
    IN /\ \A i \in DOMAIN conts :
            Contributors(group, conts, config, t)
              \subseteq Contributors(group, RemoveAt(conts, i), config, t)
       /\ \A a \in Elems(group) : \A to \in ExplicitIds :
            a \notin Contributors(group,
                                  WithEdge(conts, [from |-> a.id, to |-> to, timestamp |-> t]),
                                  config, t)

\* canonical JSON of a fact (spec 6): the pairs with the keys ascending
CanonicalJSON(fact) ==
  CHOOSE s \in Perms(fact) :
    \A i \in 1..(Len(s) - 1) : KeyRank[s[i][1]] < KeyRank[s[i + 1][1]]

\* C6: a run puts two assertions in the same group if and only if the
\* canonical JSON encodings of their facts, as the callers wrote them, are
\* equal, whatever the key order, source, confidence and timestamp; a group
\* yields at most one canonical fact in the run.
C6_GroupByCanonicalJSON ==
  \A r \in Runners :
    run[r].pc = "done" =>
      LET as == run[r].assertions
          keys == run[r].left \cup DOMAIN run[r].log
          SameGroup(a, b) ==
            \E key \in keys : a \in Elems(groupOf(as, key)) /\ b \in Elems(groupOf(as, key))
      IN /\ \A a \in Elems(as) : \A b \in Elems(as) :
              SameGroup(a, b) <=> CanonicalJSON(a.literal) = CanonicalJSON(b.literal)
         /\ run[r].updated <= Cardinality(DOMAIN run[r].log)

C6_Witness ==
  \E r \in Runners :
    /\ run[r].pc = "done"
    /\ run[r].updated = 2
    /\ \E a \in Elems(run[r].assertions) : \E b \in Elems(run[r].assertions) :
         \E c \in Elems(run[r].assertions) :
           /\ a.literal # b.literal /\ a.fact = b.fact
           /\ a.source # b.source /\ a.confidence # b.confidence
           /\ c.fact # a.fact

\* C7: every canonical record is stored under its own id, the id is the hash
\* prefix of the canonical JSON of its merged_fact, and no two records in the
\* store have the same merged_fact.
C7_CanonicalIdFromFact ==
  /\ \A cid \in DOMAIN canonical :
       /\ canonical[cid].id = cid
       /\ cid = Sha16(CanonicalJSON(canonical[cid].merged_fact))
  /\ \A c1 \in DOMAIN canonical : \A c2 \in DOMAIN canonical :
       canonical[c1].merged_fact = canonical[c2].merged_fact => c1 = c2

C7_Witness ==
  /\ Cardinality(DOMAIN canonical) = 2
  /\ nRuns = 2
  /\ \E r \in Runners : run[r].pc = "done" /\ run[r].updated = 1

\* the weights 1/(i+1) of spec 4.3 over the denominator 60, for i+1 = 1..5
HarmonicWeight == <<60, 30, 20, 15, 12>>

RECURSIVE SumSeq(_)
SumSeq(s) == IF s = <<>> THEN 0 ELSE Head(s) + SumSeq(Tail(s))

RECURSIVE SortDesc(_)
SortDesc(s) ==
  IF s = <<>> THEN <<>>
  ELSE LET i == CHOOSE i \in DOMAIN s : \A j \in DOMAIN s : s[i] >= s[j]
       IN <<s[i]>> \o SortDesc(RemoveAt(s, i))

\* the assertions of a group that are not superseded: no active edge read by
\* the run has from = their id
Survivors(r, key) ==
  SelectSeq(groupOf(run[r].assertions, key),
            LAMBDA a : ~\E e \in Elems(run[r].contradictions) :
                          e.from = a.id /\ ActiveEdge(e, config, run[r].log[key].at))

\* C8: the confidence of the canonical fact of a group with n > 0 surviving
\* contributors of confidences c_0 >= ... >= c_{n-1} is
\* (sum c_i/(i+1)) / (sum 1/(i+1)); it is c_0 when n = 1; superseded
\* assertions of the group take no part.
C8_MergedConfidence ==
  \A r \in Runners : \A key \in DOMAIN run[r].log :
    LET surv == Survivors(r, key)
        n == Len(surv)
        c == SortDesc([i \in DOMAIN surv |-> surv[i].confidence])
        num == SumSeq([i \in 1..n |-> c[i] * HarmonicWeight[i]])
        den == SumSeq([i \in 1..n |-> HarmonicWeight[i]])
        got == run[r].log[key].canonical
    IN n > 0 =>
         /\ got # <<>>
         /\ got.confidence[1] * den = got.confidence[2] * num
         /\ n = 1 => got.confidence = <<c[1], 1>>

C8_Witness ==
  \E r \in Runners : \E key \in DOMAIN run[r].log :
    /\ Len(groupOf(run[r].assertions, key)) = 3
    /\ Len(Survivors(r, key)) = 2
    /\ Survivors(r, key)[1].confidence # Survivors(r, key)[2].confidence
    /\ run[r].log[key].put = "ok"
    /\ canonical[run[r].log[key].canonical.id] = run[r].log[key].canonical

\* Scenario A of spec 8: the log holds exactly three assertions of one fact,
\* confidences 0.95, 0.90, 0.85, sources linkedin, website, github, timestamps
\* 100, 101, 102, and no edge; a consolidate over it has returned.
ScenarioA(r) ==
  /\ run[r].pc = "done"
  /\ run[r].contradictions = <<>>
  /\ Len(run[r].assertions) = 3
  /\ \A i \in 1..3 :
       /\ run[r].assertions[i].fact = CanonicalJSON(FAlice)
       /\ run[r].assertions[i].confidence = <<95, 90, 85>>[i]
       /\ run[r].assertions[i].source = <<"linkedin", "website", "github">>[i]
       /\ run[r].assertions[i].timestamp = <<100, 101, 102>>[i]

ScenarioAFact(r, f) ==
  /\ DOMAIN canonical = {f.id}
  /\ canonical[f.id] = f
  /\ f.merged_fact = CanonicalJSON(FAlice)
  /\ f.sources = <<"linkedin", "website", "github">>
  /\ f.valid_from = 100

\* C9 as stated: Scenario A gives exactly one canonical fact, with sources
\* [linkedin, website, github], valid_from 100 and a confidence of about
\* 0.9090909 (between 0.90909 and 0.90910).
C9_ScenarioA_AsStated ==
  \A r \in Runners :
    ScenarioA(r) =>
      \E f \in {run[r].log[key].canonical : key \in DOMAIN run[r].log} :
        /\ ScenarioAFact(r, f)
        /\ 90909 * f.confidence[2] <= 1000 * f.confidence[1]
        /\ 1000 * f.confidence[1] <= 90910 * f.confidence[2]

\* C9: Scenario A gives exactly one canonical fact, with sources [linkedin,
\* website, github], valid_from 100 and the confidence
\* (0.95/1 + 0.90/2 + 0.85/3)/(1 + 1/2 + 1/3) = 101/110, about 0.9181818.
C9_ScenarioA ==
  \A r \in Runners :
    ScenarioA(r) =>
      \E f \in {run[r].log[key].canonical : key \in DOMAIN run[r].log} :
        /\ ScenarioAFact(r, f)
        /\ f.confidence = <<1010, 11>>

C9_Witness == \E r \in Runners : ScenarioA(r) /\ run[r].updated = 1

\* C10: add_with_contradiction stores the new assertion before any edge and
\* the edges in the order of contradicted_ids; when the write of the k-th edge
\* fails it reports an error, the assertion and the first k-1 edges are stored
\* and no later edge is written; when the assertion write fails no edge is
\* written.
C10_AddWithContradictionWrites ==
  /\ awc.pc \in {"edges", "done"} =>
       /\ awc.err = "assertion" => awc.wrote = {} /\ awc.pc = "done"
       /\ awc.err # "assertion" => awc.id \in DOMAIN assertions
       /\ awc.err = "edge" => awc.pc = "done" /\ awc.wrote = 1..(awc.i - 1)
       /\ awc.err = "none" /\ awc.pc = "edges" => awc.wrote = 1..(awc.i - 1)
       /\ awc.err = "none" /\ awc.pc = "done" => awc.wrote = DOMAIN awc.list
       /\ \A j \in awc.wrote :
            /\ <<awc.list[j], awc.id>> \in DOMAIN contradictions
            /\ contradictions[<<awc.list[j], awc.id>>].to = awc.id
            /\ contradictions[<<awc.list[j], awc.id>>].from = awc.list[j]

C10_Witness ==
  /\ awc.pc = "done"
  /\ awc.err = "edge"
  /\ Len(awc.list) = 2
  /\ awc.wrote = {1}
  /\ awc.id \in DOMAIN assertions
  /\ <<awc.list[2], awc.id>> \notin DOMAIN contradictions

\* C11: every assertion stored when a consolidate run starts (its add has
\* returned) is part of the input of that run, the first run and every later
\* one; an assertion added while a run is in progress may be missing from the
\* input of that run only.
C11_AddedBeforeRunIsRead ==
  [][\A r \in Runners :
       (run[r].pc = "idle" /\ run'[r].pc = "readC")
         => \A id \in DOMAIN assertions : assertions[id] \in Elems(run'[r].assertions)]_vars

\* a second run is in progress, and an assertion added after its read is
\* missing from its input
C11_Witness ==
  \E r \in Runners :
    /\ nRuns = 2
    /\ run[r].pc \in {"readC", "groups"}
    /\ run[r].assertions # <<>>
    /\ \E id \in DOMAIN assertions : assertions[id] \notin Elems(run[r].assertions)

\* two canonical values are equivalent: equal but for the order of the sources
Equivalent(f, g) ==
  /\ f.id = g.id
  /\ f.merged_fact = g.merged_fact
  /\ f.confidence = g.confidence
  /\ f.valid_from = g.valid_from
  /\ Len(f.sources) = Len(g.sources)
  /\ \A src \in Elems(f.sources) \cup Elems(g.sources) :
       Cardinality({i \in DOMAIN f.sources : f.sources[i] = src})
         = Cardinality({i \in DOMAIN g.sources : g.sources[i] = src})

BothDone == \A r \in Overlapping : run[r].pc = "done"

EdgesFrom(r, a) == {e \in Elems(run[r].contradictions) : e.from = a.id}

\* C13: for an assertion with one edge from it, of age now - timestamp at the
\* time of the filter: with use_temporal_updates the assertion is excluded
\* when the age is at most max_conflict_age (also when it is equal) and
\* contributes when the age is greater; without use_temporal_updates it is
\* excluded whatever the age.
C13_EdgeActivityBoundary ==
  \A r \in Runners : \A key \in DOMAIN run[r].log :
    \A a \in Elems(groupOf(run[r].assertions, key)) :
      \A e \in EdgesFrom(r, a) :
        LET age == run[r].log[key].at - e.timestamp
            excluded == a \notin Elems(run[r].log[key].valid)
        IN Cardinality(EdgesFrom(r, a)) = 1 =>
             /\ (config.UseTemporalUpdates /\ age <= config.MaxConflictAge) => excluded
             /\ (config.UseTemporalUpdates /\ age > config.MaxConflictAge) => ~excluded
             /\ ~config.UseTemporalUpdates => excluded

\* one run with an edge of age max_conflict_age, its assertion excluded, and
\* an edge one tick older, its assertion a contributor
C13_Witness ==
  \E r \in Runners : \E k1 \in DOMAIN run[r].log : \E k2 \in DOMAIN run[r].log :
    \E a \in Elems(groupOf(run[r].assertions, k1)) :
      \E b \in Elems(groupOf(run[r].assertions, k2)) :
        /\ config.UseTemporalUpdates
        /\ Cardinality(EdgesFrom(r, a)) = 1 /\ Cardinality(EdgesFrom(r, b)) = 1
        /\ \A e \in EdgesFrom(r, a) : run[r].log[k1].at - e.timestamp = config.MaxConflictAge
        /\ \A e \in EdgesFrom(r, b) : run[r].log[k2].at - e.timestamp = config.MaxConflictAge + 1
        /\ a \notin Elems(run[r].log[k1].valid)
        /\ b \in Elems(run[r].log[k2].valid)

\* C14 as stated: with use_temporal_updates, an assertion with one edge from
\* it is excluded if and only if the age of the edge is less than
\* max_conflict_age.
C14_ActiveIffYounger_AsStated ==
  \A r \in Runners : \A key \in DOMAIN run[r].log :
    \A a \in Elems(groupOf(run[r].assertions, key)) :
      \A e \in EdgesFrom(r, a) :
        (config.UseTemporalUpdates /\ Cardinality(EdgesFrom(r, a)) = 1) =>
          ((a \notin Elems(run[r].log[key].valid))
             <=> run[r].log[key].at - e.timestamp < config.MaxConflictAge)

\* C14: with use_temporal_updates, an assertion with one edge from it is
\* excluded if and only if the age of the edge is less than or equal to
\* max_conflict_age.
C14_ActiveIffNotOlder ==
  \A r \in Runners : \A key \in DOMAIN run[r].log :
    \A a \in Elems(groupOf(run[r].assertions, key)) :
      \A e \in EdgesFrom(r, a) :
        (config.UseTemporalUpdates /\ Cardinality(EdgesFrom(r, a)) = 1) =>
          ((a \notin Elems(run[r].log[key].valid))
             <=> run[r].log[key].at - e.timestamp <= config.MaxConflictAge)

\* a run has filtered an assertion whose one edge is exactly max_conflict_age
\* old, and the canonical fact of another assertion of the log is stored
C14_Witness ==
  \E r \in Runners : \E key \in DOMAIN run[r].log :
    \E a \in Elems(groupOf(run[r].assertions, key)) :
      /\ config.UseTemporalUpdates
      /\ run[r].pc = "done"
      /\ Cardinality(EdgesFrom(r, a)) = 1
      /\ \A e \in EdgesFrom(r, a) : run[r].log[key].at - e.timestamp = config.MaxConflictAge
      /\ run[r].log[key].valid = <<>>
      /\ canonical # <<>>

\* C15: when consolidate returns, every group of its input has been processed
\* and the count returned is the number of groups whose canonical fact was
\* written in this run: a group with no surviving contributor is not counted
\* and writes nothing, a group written over a stored key is counted, a group
\* whose write failed is not counted and does not stop the run.
C15_UpdatedCount ==
  \A r \in Runners :
    run[r].pc = "done" =>
      /\ DOMAIN run[r].log = {groupKey(a) : a \in Elems(run[r].assertions)}
      /\ run[r].updated = Cardinality({key \in DOMAIN run[r].log : run[r].log[key].put = "ok"})
      /\ \A key \in DOMAIN run[r].log :
           /\ run[r].log[key].valid = <<>> <=> run[r].log[key].put = "none"
           /\ run[r].log[key].put = "ok" =>
                run[r].log[key].canonical.id \in DOMAIN canonical

\* a second run has returned 1 over two groups: one write failed, the other
\* went to a key that was stored
C15_Witness ==
  \E r \in Runners : \E k1 \in DOMAIN run[r].log : \E k2 \in DOMAIN run[r].log :
    /\ run[r].pc = "done"
    /\ nRuns = 2
    /\ run[r].updated = 1
    /\ run[r].log[k1].put = "failed"
    /\ run[r].log[k2].put = "ok"
    /\ Cardinality(DOMAIN canonical) = 2

\* C16: explain of a fact id with no stored canonical record returns
\* evidence_count 0, no sources and confidence 0, and never an error; explain
\* of a stored record, once read, returns the length of its sources as
\* evidence_count, with its sources and its confidence.
C16_ExplainSentinels ==
  explained.id # 0 =>
    /\ ~explained.present =>
         /\ explained.err = "none"
         /\ explained.result = [evidence_count |-> 0, sources |-> <<>>, confidence |-> <<0, 1>>]
    /\ (explained.present /\ explained.get = "value") =>
         /\ explained.err = "none"
         /\ explained.result.evidence_count = Len(explained.result.sources)

C18_PrefilterSound ==
  \A i \in DOMAIN retrieved.results :
    IsAllowed(retrieved.allowed, retrieved.results[i].id, retrieved.results[i].doc)

\* Retrieve has returned documents while the store holds a document that is
\* not allowed and whose BM25 score is above that of every one returned
C18_Witness ==
  /\ retrieved.results # <<>>
  /\ \E d \in DOMAIN docs :
       /\ ~IsAllowed(retrieved.allowed, d, docs[d])
       /\ \A i \in DOMAIN retrieved.results :
            FloatGreater(Score(bm25, retrieved.query, d),
                         Score(bm25, retrieved.query, retrieved.results[i].id))

\* C19: at the end of every IndexDocuments call the statistics of the
\* scorer are those computed from scratch over the documents it holds, and
\* no term's document frequency is above the document count.
C19_StatisticsFromScratch ==
  (idx.pc = "done" /\ idx.err = "none") =>
     /\ bm25 = BM25ScorerIndexDocuments(NewBM25Scorer, bm25.documents)
     /\ \A t \in DOMAIN bm25.termDocFreq : bm25.termDocFreq[t] <= bm25.documentCount

\* C20: after any sequence of IndexDocuments calls the BM25 score of every
\* query and document is a number that is not negative.
C20_ScoreNonNegative ==
  idx.pc = "idle" =>
    \A query \in Queries, d \in DOMAIN bm25.documents :
      /\ ~Score(bm25, query, d).nan
      /\ Score(bm25, query, d).v >= 0
\* lexical_weight/(k + rankL) + semantic_weight/(k + rankS), the weights in
\* tenths, as a fraction in lowest terms
Fused(rankL, rankS) ==
  Rat(rconfig.LexicalWeight * (rconfig.RRFConstant + rankS)
        + rconfig.SemanticWeight * (rconfig.RRFConstant + rankL),
      10 * (rconfig.RRFConstant + rankL) * (rconfig.RRFConstant + rankS))

\* C21: in Retrieve every candidate that passed the pre-filter, whatever
\* fields its document has, has in the lexical and in the semantic stream a
\* rank between 1 and the number of candidates, and its combined score is
\* lexical_weight/(k + rank_L) + semantic_weight/(k + rank_S).
C21_StreamsCoverCandidates ==
  \A id \in retrieved.candidates :
    /\ id \in DOMAIN retrieved.lexicalRanks
    /\ retrieved.lexicalRanks[id] \in 1..Cardinality(retrieved.candidates)
    /\ id \in DOMAIN retrieved.semanticRanks
    /\ retrieved.semanticRanks[id] \in 1..Cardinality(retrieved.candidates)
    /\ retrieved.combined[id] =
         Fused(retrieved.lexicalRanks[id], retrieved.semanticRanks[id])
\* the ids of the results of the last Retrieve, in order
ResultIds == [i \in DOMAIN retrieved.results |-> retrieved.results[i].id]

\* the lexical and the semantic stream rank the candidates identically
SameRanking ==
  /\ retrieved.candidates # {}
  /\ retrieved.lexicalRanks = retrieved.semanticRanks

\* the order of the result is the ranking of the lexical stream
InLexicalOrder == \A i \in DOMAIN ResultIds : retrieved.lexicalRanks[ResultIds[i]] = i

\* C22 as stated: if the lexical and the semantic stream rank the candidates
\* identically, the order of the fused result is that ranking.
C22_SameRankingKept_AsStated == SameRanking => InLexicalOrder

\* C22: if the two streams rank the candidates identically and
\* lexical_weight + semantic_weight > 0, the order of the fused result is
\* that ranking.
C22_SameRankingKept ==
  (SameRanking /\ rconfig.LexicalWeight + rconfig.SemanticWeight > 0) => InLexicalOrder

C22_Witness ==
  /\ SameRanking
  /\ rconfig.LexicalWeight + rconfig.SemanticWeight > 0
  /\ Len(retrieved.results) = 3
  /\ InLexicalOrder

\* Scenario E of spec 8: candidates d1, d2, d3, the lexical stream ranks
\* them d1, d2, d3, the semantic stream d3, d2, d1, weights 0.5/0.5, k = 60
ScenarioE ==
  /\ retrieved.candidates = {"d1", "d2", "d3"}
  /\ retrieved.lexicalRanks = ("d1" :> 1) @@ ("d2" :> 2) @@ ("d3" :> 3)
  /\ retrieved.semanticRanks = ("d1" :> 3) @@ ("d2" :> 2) @@ ("d3" :> 1)
  /\ rconfig.LexicalWeight = 5 /\ rconfig.SemanticWeight = 5 /\ rconfig.RRFConstant = 60

\* the combined scores of Scenario E: d1 = 0.5/61 + 0.5/63 = 62/3843,
\* d2 = 0.5/62 + 0.5/62 = 1/62, d3 = 0.5/63 + 0.5/61 = 62/3843
ScenarioEScores ==
  /\ retrieved.combined["d1"] = Rat(5 * 63 + 5 * 61, 10 * 61 * 63)
  /\ retrieved.combined["d2"] = Rat(5 * 62 + 5 * 62, 10 * 62 * 62)
  /\ retrieved.combined["d3"] = Rat(5 * 61 + 5 * 63, 10 * 63 * 61)

\* C23 as stated: in Scenario E the combined scores are as above and the
\* fused order puts d2 first.
C23_ScenarioE_AsStated ==
  ScenarioE => (ScenarioEScores /\ ResultIds # <<>> /\ ResultIds[1] = "d2")

\* C23: in Scenario E the combined scores are as above, and the fused order
\* puts d2 last: 62/3843 > 1/62, so d1 and d3 tie for the first place.
C23_ScenarioE ==
  ScenarioE =>
    /\ ScenarioEScores
    /\ Len(ResultIds) = 3
    /\ ResultIds[3] = "d2"
    /\ RatGreater(retrieved.combined["d1"], retrieved.combined["d2"])
    /\ retrieved.combined["d1"] = retrieved.combined["d3"]

C23_Witness == ScenarioE /\ ResultIds[1] = "d3"

\* C24: Retrieve returns exactly min(limit, number of candidates after the
\* pre-filter) documents, in non-increasing order of combined score and no
\* candidate left out scores above one returned, each annotated with its
\* combined score; with no candidate it returns the empty sequence and no
\* error.
C24_LimitedSortedAnnotated ==
  retrieved.err = "none" =>
    LET n == Cardinality(retrieved.candidates)
        results == retrieved.results
    IN /\ Len(results) = IF rconfig.Limit < n THEN rconfig.Limit ELSE n
       /\ \A i \in DOMAIN results :
            /\ results[i].id \in retrieved.candidates
            /\ results[i].score = retrieved.combined[results[i].id]
       /\ \A i, j \in DOMAIN results :
            i < j => /\ results[i].id # results[j].id
                     /\ ~RatGreater(results[j].score, results[i].score)
       /\ \A id \in retrieved.candidates \ {results[i].id : i \in DOMAIN results} :
            \A i \in DOMAIN results : ~RatGreater(retrieved.combined[id], results[i].score)
       /\ n = 0 => results = <<>>

C24_Witness ==
  /\ retrieved.err = "none"
  /\ Cardinality(retrieved.candidates) = 3
  /\ Len(retrieved.results) = 1
  /\ \E id \in retrieved.candidates :
       RatGreater(retrieved.results[1].score, retrieved.combined[id])
\* C25: a Retrieve that runs while IndexDocuments rebuilds the index scores
\* against the complete old index or against the complete new one, never
\* against a mix: the scorer it reads is the one the rebuild found or the one
\* the rebuild leaves.
C25_RebuildAtomic ==
  [][(retrieved' # retrieved /\ retrieved'.err = "none" /\ idx.pc = "bm25")
       => \/ bm25 = idx.before
          \/ bm25 = indexLoop(bm25, idx.left, idx.totalLength)]_vars

\* C26: when the scan of the document prefix fails, so that Retrieve has
\* only a part of the documents, Retrieve returns a storage error and no
\* document.
C26_ScanFailureSurfaces ==
  retrieved.partial => (retrieved.err = "storage" /\ retrieved.results = <<>>)
\* the defaults applied field by field: the fields the argument names keep
\* their values, each other field takes its default
Fieldwise(arg, default) ==
  [f \in DOMAIN default |-> IF f \in arg.given THEN arg.values[f] ELSE default[f]]

\* C27: the constructors apply the configuration defaults field by field:
\* each field the caller's configuration omits takes its default, the fields
\* it supplies keep their values.
C27_DefaultsFieldwise ==
  [][/\ \A arg \in RetrievalConfigArgs :
          NewHybridRetriever(arg) => rconfig' = Fieldwise(arg, DefaultRetrievalConfig)
     /\ \A arg \in ConsolidationConfigArgs :
          NewConsolidator(arg) => config' = Fieldwise(arg, DefaultConsolidationConfig)]_vars
\* the tokens joined by single spaces
RECURSIVE Join(_)
Join(terms) ==
  IF terms = <<>> THEN <<>>
  ELSE IF Len(terms) = 1 THEN terms[1]
  ELSE terms[1] \o <<" ">> \o Join(Tail(terms))

\* C28: for every text x, tokenizing the tokens of x joined by single
\* spaces gives the token sequence of x; the texts are those of the documents
\* the scorer holds.
C28_TokenizeIdempotent ==
  \A id \in DOMAIN bm25.documents :
    tokenize(Join(tokenize(bm25.documents[id]))) = tokenize(bm25.documents[id])

C28_Witness ==
  \E id \in DOMAIN bm25.documentLengths :
    LET x == bm25.documents[id]
    IN /\ id \in DOMAIN bm25.documents
       /\ bm25.documentLengths[id] = 2
       /\ Len(tokenize(x)) = 2
       /\ Len(Join(tokenize(x))) < Len(x)
       /\ \E i \in DOMAIN x : x[i] \in DOMAIN Lower
       /\ \E i \in DOMAIN x : x[i] \in Cutset
\* a ranks before b: confidence descending, then timestamp descending, then
\* assertion id ascending
RanksBefore(a, b) ==
  \/ a.confidence > b.confidence
  \/ a.confidence = b.confidence /\ a.timestamp > b.timestamp
  \/ a.confidence = b.confidence /\ a.timestamp = b.timestamp /\ a.id < b.id

\* C29: the contributors of a group are in the order confidence descending,
\* then timestamp descending, then assertion id ascending, so the sources of
\* the canonical fact are in that one order on every run.
C29_ContributorOrder ==
  \A r \in Runners : \A key \in DOMAIN run[r].log :
    LET valid == run[r].log[key].valid
    IN /\ \A i, j \in DOMAIN valid : i < j => RanksBefore(valid[i], valid[j])
       /\ run[r].log[key].canonical # <<>> =>
            run[r].log[key].canonical.sources = [i \in DOMAIN valid |-> valid[i].source]

\* the orders of s by confidence descending, then timestamp descending
RankOrders(s) ==
  {t \in Perms(s) :
     \A i, j \in DOMAIN t :
       i < j => \/ t[i].confidence > t[j].confidence
                \/ t[i].confidence = t[j].confidence /\ t[i].timestamp >= t[j].timestamp}

C31_ValidFromOfSurvivors ==
  \A r \in Runners : \A key \in DOMAIN run[r].log :
    LET surv == Survivors(r, key)
        got == run[r].log[key].canonical
    IN got # <<>> =>
         /\ surv # <<>>
         /\ \E i \in DOMAIN surv : got.valid_from = surv[i].timestamp
         /\ \A i \in DOMAIN surv : got.valid_from <= surv[i].timestamp
         /\ "valid_until" \notin DOMAIN got
         /\ run[r].log[key].put = "ok" => canonical[got.id] = got

C31_Witness ==
  \E r \in Runners : \E key \in DOMAIN run[r].log :
    LET group == groupOf(run[r].assertions, key)
        surv == Survivors(r, key)
    IN /\ Len(group) = 3
       /\ Len(surv) = 2
       /\ \E i \in DOMAIN group : group[i].timestamp = 100
       /\ \A i \in DOMAIN surv : surv[i].timestamp = 101
       /\ run[r].log[key].put = "ok"
       /\ canonical[run[r].log[key].canonical.id].valid_from = 101

\* C32: with use_temporal_updates = true a contradiction edge whose timestamp
\* cannot be decoded is inactive: an assertion all of whose edges are of that
\* kind is a contributor of its group.
C32_UndecodableEdgeSkipped ==
  \A r \in Runners : \A key \in DOMAIN run[r].log :
    \A a \in Elems(groupOf(run[r].assertions, key)) :
      (/\ config.UseTemporalUpdates
       /\ \A e \in Elems(run[r].contradictions) :
            e.from = a.id => "timestamp" \notin DOMAIN e)
      => a \in Elems(run[r].log[key].valid)

\* the groups a step of Consolidate has just dealt with, and what it built
Written(r) ==
  {run'[r].log[key].canonical :
     key \in {k \in DOMAIN run'[r].log \ DOMAIN run[r].log :
                run'[r].log[k].put = "ok"}}

\* C33: a step of consolidate leaves the assertion and contradiction keys as
\* they are and deletes no canonical key; a canonical record is replaced only
\* by the record the step built under that same id, a key appears only that
\* way, and every other record stays as it was, also when its group has no
\* surviving contributor in this run.
C33_ConsolidateWritesCanonicalOnly ==
  [][run' # run =>
       /\ assertions' = assertions
       /\ contradictions' = contradictions
       /\ DOMAIN canonical \subseteq DOMAIN canonical'
       /\ \A id \in DOMAIN canonical' :
            \/ id \in DOMAIN canonical /\ canonical'[id] = canonical[id]
            \/ \E r \in Runners : \E w \in Written(r) :
                 w.id = id /\ canonical'[id] = w]_vars

C33_Witness ==
  \E r \in Runners : \E key \in DOMAIN run[r].log :
    /\ run[r].log[key].valid = <<>>
    /\ groupOf(run[r].assertions, key) # <<>>
    /\ \E f \in Elems(GetCanonicalFacts) :
         /\ Marshal(f.merged_fact) = key
         /\ f.id = generateCanonicalID(groupOf(run[r].assertions, key)[1])

\* the second call has read what the first read, and every edge is active at
\* the second call's filter of a group exactly if it was at the first's
SameInput ==
  /\ run["r1"].assertions = run["r2"].assertions
  /\ run["r1"].contradictions = run["r2"].contradictions
  /\ \A key \in DOMAIN run["r1"].log \cap DOMAIN run["r2"].log :
       \A e \in Elems(run["r1"].contradictions) :
         ActiveEdge(e, config, run["r1"].log[key].at)
           <=> ActiveEdge(e, config, run["r2"].log[key].at)

C35_StoreBeforeIndex ==
  [][/\ bm25' # bm25 =>
          /\ idx.pc \in {"store", "bm25"}
          /\ idx.left = {} \/ idx.pc = "bm25"
          /\ \A id \in DOMAIN idx.documents :
               id \in DOMAIN docs /\ docs[id] = idx.documents[id]
     /\ (idx.pc = "store" /\ idx'.err = "store") =>
          /\ idx'.pc = "done"
          /\ bm25' = bm25
          /\ docs' = docs
          /\ \A id \in DOMAIN idx.documents \ idx.left :
               id \in DOMAIN docs' /\ docs'[id] = idx.documents[id]
     /\ (idx.pc = "done" /\ idx.err = "store") => bm25' = bm25]_vars

C35_Witness ==
  /\ idx.pc = "done"
  /\ idx.err = "store"
  /\ idx.left # {}
  /\ bm25.documentCount = 1
  /\ \E id \in DOMAIN idx.documents \ idx.left :
       /\ docs[id] = idx.documents[id]
       /\ docs[id].hasText
       /\ id \notin DOMAIN bm25.documents

\* C36: two Retrieve calls, one after the other, with the same query and
\* allowed set on the same store, index and config return the same documents
\* in the same order with the same scores.
C36_RetrieveDeterministic ==
  [][(/\ docs' = docs
      /\ bm25' = bm25
      /\ rconfig' = rconfig
      /\ retrieved.err = "none"
      /\ retrieved'.err = "none"
      /\ retrieved'.query = retrieved.query
      /\ retrieved'.allowed = retrieved.allowed)
     => retrieved'.results = retrieved.results]_vars

\* C37: a Transaction is active, committed or aborted, never committed and
\* aborted at once, and the last two are final; on a committed Transaction
\* Get, Put, Delete and Commit return ErrTxnCommitted, on an aborted one
\* ErrTxnAborted, without a call to the client; Abort on a finished
\* Transaction returns nil and changes nothing; a Commit or Abort whose client
\* call fails leaves the Transaction active.
C37_TransactionStates ==
  [][txn' # txn =>
       /\ ~(txn'.committed /\ txn'.aborted)
       /\ txn.committed => txn'.committed
       /\ txn.aborted => txn'.aborted
       /\ (txn.committed \/ txn.aborted) =>
            /\ ~txn'.last.reached
            /\ txn'.store = txn.store
            /\ txn'.last.err = IF txn'.last.op = "Abort" THEN "nil"
                                ELSE IF txn.committed THEN ErrTxnCommitted
                                ELSE ErrTxnAborted
       /\ (~txn.committed /\ ~txn.aborted) =>
            /\ txn'.last.reached
            /\ txn'.committed <=> (txn'.last.op = "Commit" /\ txn'.last.err = "nil")
            /\ txn'.aborted <=> (txn'.last.op = "Abort" /\ txn'.last.err = "nil")]_vars

C37_Witness ==
  /\ txn.aborted
  /\ txn.store # <<>>
  /\ txn.last = [op |-> "Put", err |-> ErrTxnAborted, reached |-> FALSE]
  /\ txn.calls = MaxTxnCalls

\* the pending tasks of the queue, and a is more urgent than b: lower
\* priority number, then earlier ready time, then lower sequence number
PendingKeys == {k \in DOMAIN pq.tasks : pq.tasks[k].State = "pending"}

MoreUrgent(a, b) ==
  \/ a.Priority < b.Priority
  \/ a.Priority = b.Priority /\ a.ReadyTs < b.ReadyTs
  \/ a.Priority = b.Priority /\ a.ReadyTs = b.ReadyTs /\ a.Sequence < b.Sequence

\* C38: Dequeue returns nil only when no task is pending; the task it
\* returns is claimed by the worker and no pending task is more urgent; a
\* successful Ack leaves its task completed.
C38_DequeueMostUrgent ==
  /\ (pq.last.op = "Dequeue" /\ pq.last.result = <<>>) => PendingKeys = {}
  /\ (pq.last.op = "Dequeue" /\ pq.last.result # <<>>) =>
       \E k \in DOMAIN pq.tasks :
         /\ k.TaskID = pq.last.result[1]
         /\ pq.tasks[k].State = "claimed"
         /\ \A other \in PendingKeys : ~MoreUrgent(other, k)
  /\ (pq.last.op = "Ack" /\ pq.last.err = "nil") =>
       \E k \in DOMAIN pq.tasks :
         k.TaskID = pq.last.result[1] /\ pq.tasks[k].State = "completed"

\* the keys of the entries a Get may return: not expired, and of a similarity
\* to the query strictly above the threshold
Eligible(queryEmbedding, threshold) ==
  {k \in DOMAIN cache.entries :
     /\ ~(cache.entries[k].TTL > 0 /\ now > cache.entries[k].Timestamp + cache.entries[k].TTL)
     /\ ~semanticCosineSimilarity(queryEmbedding, cache.entries[k].Embedding).err
     /\ RatGreater(semanticCosineSimilarity(queryEmbedding, cache.entries[k].Embedding).score,
                   threshold)}

\* C39: SemanticCache.Get returns nil exactly when no entry is eligible, and
\* otherwise an eligible entry of the highest similarity with that similarity
\* as its score; it adds one to hits when it returns an entry and one to
\* misses when it returns nil, and leaves the other counter alone.
C39_GetBestFresh ==
  [][cache'.last.op = "Get" /\ cache'.calls = cache.calls + 1 =>
       LET query == cache'.last.query
           hit == cache'.last.hit
           eligible == Eligible(query, cache'.last.threshold)
       IN /\ hit = <<>> <=> eligible = {}
          /\ hit # <<>> =>
               /\ hit[1].entry.Key \in eligible
               /\ cache.entries[hit[1].entry.Key] = hit[1].entry
               /\ hit[1].Score = semanticCosineSimilarity(query, hit[1].entry.Embedding).score
               /\ \A k \in eligible :
                    ~RatGreater(semanticCosineSimilarity(query,
                                                         cache.entries[k].Embedding).score,
                                hit[1].Score)
          /\ cache'.hits = cache.hits + (IF hit # <<>> THEN 1 ELSE 0)
          /\ cache'.misses = cache.misses + (IF hit # <<>> THEN 0 ELSE 1)
          /\ cache'.entries = cache.entries]_vars

C39_Witness ==
  /\ cache.last.op = "Get"
  /\ cache.last.hit # <<>>
  /\ cache.last.hit[1].Score = <<4, 5>>
  /\ cache.last.threshold = <<0, 1>>
  /\ \E k \in DOMAIN cache.entries :
       /\ cache.entries[k].TTL > 0
       /\ now > cache.entries[k].Timestamp + cache.entries[k].TTL
       /\ semanticCosineSimilarity(cache.last.query, cache.entries[k].Embedding).score = <<1, 1>>

\* C40: the token count of the context Execute returns is at most the token
\* budget, its sections are in ascending priority order, and Truncated is
\* true exactly when the sections' total token estimate is above the budget.
C40_ContextWithinBudget ==
  ctx.result # <<>> =>
    LET res == ctx.result[1]
    IN /\ res.TokenCount <= ctx.tokenBudget
       /\ \A i, j \in DOMAIN res.kept : i < j => res.kept[i].Priority <= res.kept[j].Priority
       /\ res.Truncated <=> TotalTokens(ctx.sections) > ctx.tokenBudget
====
